---- MODULE Spec2Model ----
(***************************************************************************)
(* A model of the fileShare backend: the file lifecycle engine (upload,    *)
(* reads, versioned mutations, thumbnail job, expired-deletion reaper)     *)
(* translated from internal/files/service.go and the SQL under             *)
(* internal/db/queries, and the action-token flows of the credential       *)
(* subsystem (internal/user/service.go, the auth service).                 *)
(*                                                                         *)
(* The object store is a map key -> bytes.  Save, Delete and the database  *)
(* statements may fail wherever the code receives an error from them; the  *)
(* code discards the result of every Delete, so a failed Delete leaves the *)
(* object behind.  Every SQL statement and every store call is one atomic  *)
(* step; a handler that makes several of them is a process whose steps     *)
(* interleave with other requests, other task handlers, the passing of a   *)
(* task's deadline and the shutdown.  Time is counted in quarter hours.    *)
(***************************************************************************)
EXTENDS Integers, FiniteSets, Sequences, TLC

\* ------------------------------------------------------------------ bounds
MaxUploads == 2       \* upload slots, and upload attempts of the concurrent specification
MaxUuids == 3         \* uuid.New() calls (storage keys and thumbnail keys)
MaxHandlers == 2      \* handlers of one task type running at once (Concurrency: 10)
MaxFiles == 2         \* rows ever inserted into files
MaxVersion == 3       \* cap on files.version
MaxTicks == 2         \* cap on the number of clock steps of one size
MaxRequestFiles == 1  \* uploads in the request-level and lifecycle specifications
MaxTokens == 2        \* action tokens ever issued
MaxAttempts == 2      \* token consumptions that may be in flight at once
MaxUserVersion == 2   \* cap on users.version
MaxLogins == 2        \* refresh tokens ever created (successful logins)
MaxSecrets == 3       \* API-key secrets ever generated
GateLogins == 1       \* logins in the gate specification
GateMints == 1        \* API keys minted in the gate specification
KeysMints == 2        \* API keys minted in the key-validation specification

\* ------------------------------------------------------- program constants
Retention == 672            \* DeleteFile: time.Now().Add(7 * 24 * time.Hour), in quarter hours
VerificationTTL == 96       \* Register: time.Now().Add(24 * time.Hour)
ResetTTL == 1               \* SendPasswordResetLink: time.Now().Add(15 * time.Minute)
MaxRetry == 3               \* asynq.MaxRetry(3) of the thumbnail task
EmailMaxRetry == 5          \* asynq.MaxRetry(5) of the email tasks
DefaultMaxRetry == 25       \* the broker's budget for a task enqueued without MaxRetry
CleanupLimit == 100         \* ProcessTaskCleanupSystem: var limit int32 = 100
MaxUploadSize == 2          \* FileHandler.maxUploadSize (MAX_UPLOAD_SIZE), in model units
MultipartOverhead == 1      \* FileHandler.Upload: the boundaries and part headers of the body
AccessTTL == 1              \* cfg.jwtTTL = 15 * time.Minute
RefreshTTL == 672           \* cfg.refreshTokenTTL = 7 * 24 * time.Hour
PrefixAttempts == 5         \* GenerateAPIKey: for i := 0; i < 5; i++
DefaultKeyTTL == 8640       \* CreateAPIKey: time.Now().Add(90 * 24 * time.Hour)

\* ------------------------------------------------------------ value spaces
Users == {"u1", "u2"}           \* principals
NilUser == "nil"                \* uuid.Nil, the UserID of security.AnonymousUser
Names == {"a", "b"}
Contents == {"txt", "jpg", "big"}
Passwords == {"p1", "p2"}
FileIds == 1..MaxFiles
NoKey == <<"none">>             \* sql.NullString{Valid: false}
NoTime == -1                    \* deleted_at IS NULL

\* size and sniffed content type are functions of the uploaded bytes
SizeOf(c) ==
    IF c = "big" THEN MaxUploadSize + 1
    ELSE IF c = "tiny" THEN MaxUploadSize - MultipartOverhead
    ELSE MaxUploadSize
ContentType(c) == IF c = "jpg" THEN "image/jpeg" ELSE "text/plain"
\* hex(SHA-256(bytes)): injective on the modelled contents
Checksum(c) == <<"sha256", c>>
\* filepath.Join("users", userID, uuid + ext)
StorageKeyOf(u, n) == <<"users", u, n>>
\* "thumbnails/" + uuid + ".jpg"
ThumbKeyOf(n) == <<"thumbnails", n>>
\* the bytes of a stored object: a complete upload, the remains of a failed
\* Save, or a thumbnail rendered from an original
Full(c) == <<"full", c>>
Partial(c) == <<"partial", c>>
ThumbOf(bytes) == <<"thumb", bytes[2]>>

VARIABLES
    files,      \* table files: file_id -> row
    nFiles,     \* number of file_ids handed out (uuidv7 default)
    store,      \* object store: key -> bytes
    nUuid,      \* number of uuid.New() calls so far
    upl,        \* in-flight UploadFile calls, one per request slot
    tasks,      \* the tasks known to the broker
    tj,         \* the thumbnail handlers being executed, one per handler slot:
                \* GenerateThumbnail's position and the attempt it was started for
    cl,         \* the CleanupExpiredSoftDeleted calls being executed, one per slot
                \* (task: it is the call of ProcessTaskCleanupSystem, which goes on
                \* to the token tables)
    now,        \* the clock
    last,       \* the response of the most recent single-statement request
                \* (rows: the file_ids of a listing, in the order returned)
    users,      \* table users: user_id -> row
    tokens,     \* table action_tokens: a set of rows
    nTok,       \* number of plaintexts generated so far
    att,        \* in-flight action-token consumptions, one per slot
    refresh,    \* table refresh_tokens: a set of rows
    nRefresh,   \* number of refresh-token strings generated so far
    held,       \* the access token a client holds: the one issued last
    auth,       \* the response of the most recent authentication request
    apiKeys,    \* table api_keys: a set of rows
    gen,        \* in-flight GenerateAPIKey calls, one per slot
    nSecret,    \* number of API-key secrets generated so far
    app         \* the application process: serve's position, the HTTP server, the task
                \* processor, the wait group and the detached background tasks

fileVars == <<files, nFiles, store, nUuid, upl, tasks, tj, cl>>
credVars == <<users, tokens, nTok, att>>
authVars == <<refresh, nRefresh, held, auth, apiKeys, gen, nSecret, app>>
vars == <<fileVars, now, last, credVars, authVars>>

Slots == 1..MaxUploads
AttSlots == 1..MaxAttempts
IdleUpload == [pc |-> "idle", user |-> NilUser, content |-> "txt",
               key |-> NoKey, res |-> "none"]
HSlots == 1..MaxHandlers
IdleTJ == [pc |-> "idle", file |-> 0, key |-> NoKey, thumb |-> NoKey, payload |-> "json",
           img |-> <<>>, attempt |-> 0]
IdleCleanup == [pc |-> "idle", sel |-> {}, res |-> "none", failed |-> 0, limit |-> 0,
                task |-> FALSE, attempt |-> 0]
NoResponse == [op |-> "none", caller |-> NilUser, file |-> 0, res |-> "none", rows |-> <<>>]
IdleAttempt == [pc |-> "idle", op |-> "none", user |-> NilUser, plain |-> 0,
                pw |-> "none", version |-> 0, res |-> "none"]

\* security.ContextUser; kind tells the AnonymousUser pointer ("anonymous") and
\* the nil result of a failed validation ("none") from a validated user
ContextUser(kind, u, first, lst, email, role, activated) ==
    [kind |-> kind, UserID |-> u, FirstName |-> first, LastName |-> lst,
     Email |-> email, Role |-> role, IsActivated |-> activated]
\* var AnonymousUser = &ContextUser{}
AnonymousUser == ContextUser("anonymous", NilUser, "", "", "", "", FALSE)
NoPrincipal == ContextUser("none", NilUser, "", "", "", "", FALSE)

\* a string that is no JWT at all
GarbageToken == [wire |-> "garbage", alg |-> "none", sig |-> <<>>, claims |-> <<>>]
NoHeld == [token |-> GarbageToken, principal |-> NoPrincipal, refresh |-> 0, n |-> 0]
NoAuth == [op |-> "none", res |-> "none", principal |-> NoPrincipal, next |-> 0]
GenSlots == 1..2
IdleGen == [pc |-> "idle", user |-> NilUser, expires |-> 0, i |-> 0, prefix |-> <<>>,
            res |-> "none", key |-> <<>>]

\* detached background tasks the application can have started at once
MaxDetached == 2
\* starts of the process
MaxStarts == 2
BgSlots == 1..MaxDetached
\* the application after serve has started the task processor and the HTTP server:
\* pc is serve's position, res what serve returned, wg the counter of app.wg, bg the
\* goroutines started through BackgroundTask, logged the panics they recovered,
\* starts the number of times the process was started
Serving == [pc |-> "serving", res |-> "none", signalled |-> FALSE, http |-> "up",
            processor |-> "running", wg |-> 0, bg |-> [i \in BgSlots |-> "idle"],
            logged |-> 0, starts |-> 1]

\* the task server shuts down: a task whose handler has not returned is put
\* back on its queue, its retry count as it was
Requeue(ts) == {IF t.st = "active" THEN [t EXCEPT !.st = "pending"] ELSE t : t \in ts}

\* worker.BackgroundTask: wg.Add(1), then the go statement; the goroutine of
\* slot i exists but has not run yet.  This older revision has no wait group
BackgroundTaskUntracked(a, i) == [a EXCEPT !.bg[i] = "added"]
\* worker.BackgroundTask, current revision
BackgroundTask(a, i) == [a EXCEPT !.wg = a.wg + 1, !.bg[i] = "added"]

\* the goroutine slots not used yet; at most MaxDetached tasks are started
FreeSlots(a) == {i \in BgSlots : a.bg[i] = "idle"}
\* ValidateAPIKey after the hash check: the update of last_used_at is handed
\* to BackgroundTask, in the lowest free slot
UpdateLastUsedDetached(a) ==
    BackgroundTask(a, CHOOSE i \in FreeSlots(a) : \A j \in FreeSlots(a) : i <= j)

Init ==
    /\ files = <<>>
    /\ nFiles = 0
    /\ store = <<>>
    /\ nUuid = 0
    /\ upl = [p \in Slots |-> IdleUpload]
    /\ tasks = {}
    /\ tj = [h \in HSlots |-> IdleTJ]
    /\ cl = [h \in HSlots |-> IdleCleanup]
    /\ now = 0
    /\ last = NoResponse
    /\ users = <<>>
    /\ tokens = {}
    /\ nTok = 0
    /\ att = [a \in AttSlots |-> IdleAttempt]
    /\ refresh = {}
    /\ nRefresh = 0
    /\ held = NoHeld
    /\ auth = NoAuth
    /\ apiKeys = {}
    /\ gen = [g \in GenSlots |-> IdleGen]
    /\ nSecret = 0
    /\ app = Serving

\* ------------------------------------------------------------ object store
StoreHas(k) == k \in DOMAIN store
\* FileStorage.Save: create the object and copy the stream into it
StoreSave(s, k, bytes) == [x \in (DOMAIN s) \cup {k} |-> IF x = k THEN bytes ELSE s[x]]
\* FileStorage.Delete: RemoveAll per key, a missing key is not an error
StoreDelete(s, ks) == [x \in (DOMAIN s) \ ks |-> s[x]]

\* --------------------------------------------------------------- table files
Rows == DOMAIN files
\* insert into files (...) values (...): defaults from the schema
NewRow(u, name, key, c) ==
    [user_id |-> u, filename |-> name, storage_key |-> key,
     mime_type |-> ContentType(c), size_bytes |-> SizeOf(c),
     visibility |-> "private", thumbnail_key |-> NoKey, checksum |-> Checksum(c),
     is_deleted |-> FALSE, deleted_at |-> NoTime, version |-> 0]
InsertRow(t, id, row) == [x \in (DOMAIN t) \cup {id} |-> IF x = id THEN row ELSE t[x]]
DeleteRows(t, ids) == [x \in (DOMAIN t) \ ids |-> t[x]]

\* ------------------------------------------------------------- UploadFile
\* a dedup lookup that sees only tombstoned rows
GetFileByChecksumTombstoned(cs, u) ==
    LET hit == {f \in Rows : /\ files[f].checksum = cs
                             /\ files[f].user_id = u
                             /\ files[f].is_deleted}
    IN  IF hit = {} THEN 0 ELSE 1

\* a dedup lookup over the rows of every owner, tombstoned or not
GetFileByChecksumAnyOwner(cs, u) ==
    IF {f \in Rows : files[f].checksum = cs} = {} THEN 0 ELSE 1

\* select count(checksum), storage_key from files where checksum = $1 and
\* user_id = $2 and is_deleted = false group by storage_key  (:one, error ignored)
GetFileByChecksum(cs, u) ==
    LET hit == {f \in Rows : /\ files[f].checksum = cs
                             /\ files[f].user_id = u
                             /\ ~files[f].is_deleted}
    IN  IF hit = {} THEN 0 ELSE 1

\* _ = s.store.Delete(storageKey) on the error arms of UploadFile: the result
\* is discarded, so a failed Delete leaves the store as it was
RemoveObject(s, k, delOk) == IF delOk THEN StoreDelete(s, {k}) ELSE s

\* the call returns: the slot keeps only what the caller was told
UploadDone(p, r) == [upl EXCEPT ![p] = [IdleUpload EXCEPT !.pc = "done", !.res = r]]

\* UploadFile up to the return of store.Save and the size check
\* how: "ok", "error" (Save failed, nothing written), "partial" (Save failed
\* after the object was created)
UploadSave(p, u, c, how, delOk) ==
    /\ upl[p].pc \in {"idle", "done"}
    /\ nUuid < MaxUuids
    /\ nUuid' = nUuid + 1
    /\ LET key == StorageKeyOf(u, nUuid + 1)
       IN  CASE how = "error" ->
                  /\ store' = RemoveObject(store, key, delOk)
                  /\ upl' = UploadDone(p, "storage error")
             [] how = "partial" ->
                  /\ store' = RemoveObject(StoreSave(store, key, Partial(c)), key, delOk)
                  /\ upl' = UploadDone(p, "storage error")
             [] how = "ok" /\ SizeOf(c) > MaxUploadSize ->
                  /\ store' = RemoveObject(StoreSave(store, key, Full(c)), key, delOk)
                  /\ upl' = UploadDone(p, "too large")
             [] how = "ok" /\ SizeOf(c) <= MaxUploadSize ->
                  /\ store' = StoreSave(store, key, Full(c))
                  /\ upl' = [upl EXCEPT ![p] = [pc |-> "saved", user |-> u, content |-> c,
                                                key |-> key, res |-> "none"]]
    /\ UNCHANGED <<files, nFiles, tasks, tj, cl, now, last, credVars, authVars>>

\* the dedup lookup and its duplicate arm.  existingFile, _ := GetFileByChecksum:
\* the error is discarded, so a lookup that fails (dbOk = FALSE) leaves the
\* zero row, Count is 0 and the upload goes on as if no copy existed
UploadLookup(p, dbOk, delOk) ==
    /\ upl[p].pc = "saved"
    /\ IF dbOk /\ GetFileByChecksum(Checksum(upl[p].content), upl[p].user) > 0
       THEN /\ store' = RemoveObject(store, upl[p].key, delOk)
            /\ upl' = UploadDone(p, "duplicate")
       ELSE /\ store' = store
            /\ upl' = [upl EXCEPT ![p].pc = "checked"]
    /\ UNCHANGED <<files, nFiles, nUuid, tasks, tj, cl, now, last, credVars, authVars>>

\* the task enqueued for an image upload: asynq.MaxRetry(3), queue "default"
\* a task as the broker holds it: payload tells whether its bytes decode,
\* file and key are the FileID and StorageKey of a thumbnail payload,
\* attempts counts the times a handler was started for it, logged tells that
\* an error line was written for it
ThumbnailTask(f, k) ==
    [type |-> "task:image:generate_thumbnail", payload |-> "json", file |-> f, key |-> k,
     st |-> "pending", retried |-> 0, max |-> MaxRetry, attempts |-> 0, logged |-> FALSE,
     runs |-> {}]

\* CreateFile and, for image/*, DistributeGenerateThumbnail
UploadInsert(p, name, dbOk, enqOk, delOk) ==
    /\ upl[p].pc = "checked"
    /\ IF ~dbOk
       THEN /\ store' = RemoveObject(store, upl[p].key, delOk)
            /\ upl' = UploadDone(p, "database error")
            /\ UNCHANGED <<files, nFiles, tasks>>
       ELSE /\ nFiles < MaxFiles
            /\ nFiles' = nFiles + 1
            /\ files' = InsertRow(files, nFiles + 1,
                          NewRow(upl[p].user, name, upl[p].key, upl[p].content))
            /\ tasks' = IF ContentType(upl[p].content) = "image/jpeg" /\ enqOk
                        THEN tasks \cup {ThumbnailTask(nFiles + 1, upl[p].key)}
                        ELSE tasks
            /\ upl' = UploadDone(p, "ok")
            /\ store' = store
    /\ UNCHANGED <<nUuid, tj, cl, now, last, credVars, authVars>>

\* FileHandler.Upload: r.Body = http.MaxBytesReader(w, r.Body, maxUploadSize)
\* caps the whole multipart body, framing included.  A body within the cap
\* reaches UploadFile whole; reading a longer one fails inside store.Save
\* once the cap is passed, so Save returns an error with or without an object
\* left behind, and the size check of UploadFile is never reached with more
\* bytes than the cap.
BodySize(c) == SizeOf(c) + MultipartOverhead

Upload(p, u, c, how, delOk) ==
    /\ BodySize(c) > MaxUploadSize => how \in {"error", "partial"}
    /\ UploadSave(p, u, c, how, delOk)

\* the answer of FileHandler.Upload to the result of UploadFile: 201 on
\* success, ServerErrorResponse for every error
UploadStatus(res) == IF res = "ok" THEN "Created" ELSE "ServerError"

\* ------------------------------------------------------ GenerateThumbnail
\* a verdict that retries an error wrapping SkipRetry like any other
VerdictRetryingSkip(t, res) ==
    IF res = "nil" THEN [t EXCEPT !.st = "completed"]
    ELSE IF t.retried < t.max THEN [t EXCEPT !.st = "pending", !.retried = t.retried + 1]
    ELSE [t EXCEPT !.st = "dead"]

\* the broker's verdict on what the handler returned: nil completes the
\* task, an error that wraps SkipRetry archives it at once, any other error
\* schedules a retry until the budget is spent, then the task is archived
Verdict(t, res) ==
    IF res = "nil" THEN [t EXCEPT !.st = "completed"]
    ELSE IF res = "SkipRetry" THEN [t EXCEPT !.st = "dead"]
    ELSE IF t.retried < t.max THEN [t EXCEPT !.st = "pending", !.retried = t.retried + 1]
    ELSE [t EXCEPT !.st = "dead"]

\* the broker's verdict on a failed attempt, with the line of the server's
\* ErrorHandler
FailTask(t) == [Verdict(t, "error") EXCEPT !.logged = TRUE]

\* the handler started for attempt a of the task (type, f) returns res.  The
\* task server files the verdict, and its ErrorHandler logs an error, when
\* the task is still active in the attempt the handler was started for; the
\* return of a handler whose task a shutdown has put back, or whose deadline
\* has passed, is dropped.  line: the handler wrote an error line itself,
\* which it does whoever awaits its return
Filed(ts, type, f, a, res, line) ==
    {IF t.type = type /\ t.file = f
     THEN LET cur == t.st = "active" /\ t.attempts = a
          IN  [(IF cur THEN Verdict(t, res) ELSE t)
                 EXCEPT !.logged = t.logged \/ line \/ (cur /\ res # "nil")]
     ELSE t : t \in ts}

\* p.logger.Error of a handler: an error line on behalf of the task (type, f)
LogLine(ts, type, f) ==
    {IF t.type = type /\ t.file = f THEN [t EXCEPT !.logged = TRUE] ELSE t : t \in ts}

\* a payload that json.Unmarshal accepts as if the error it returned were an
\* ordinary one
UnmarshalErrorRetried == "error"

\* fmt.Errorf("failed to unmarshal payload: %w", asynq.SkipRetry)
UnmarshalError == "SkipRetry"

\* the first of the handler slots s that no handler occupies
FreeSlot(s) == CHOOSE h \in HSlots : s[h].pc = "idle" /\ \A g \in 1..(h - 1) : s[g].pc # "idle"

\* the running task server takes a pending task and starts its handler in a
\* goroutine of its own, next to the handlers that are still running (of
\* other tasks, or of an earlier attempt of this task that overran its
\* deadline); Concurrency bounds the handlers it runs at once, MaxHandlers
\* of one type here
TakeTask(t) ==
    /\ t \in tasks
    /\ t.st = "pending"
    /\ app.processor = "running"
    /\ LET a == t.attempts + 1
       IN  /\ tasks' = (tasks \ {t}) \cup
                 {[t EXCEPT !.st = "active", !.attempts = a,
                            !.runs = IF t.type = "task:email:send" THEN t.runs \cup {a}
                                     ELSE t.runs]}
           /\ IF t.type = "task:image:generate_thumbnail"
              THEN /\ \E h \in HSlots : tj[h].pc = "idle"
                   /\ tj' = [tj EXCEPT ![FreeSlot(tj)] =
                               [IdleTJ EXCEPT !.pc = "started", !.file = t.file,
                                              !.key = t.key, !.payload = t.payload,
                                              !.attempt = a]]
                   /\ cl' = cl
              ELSE IF t.type = "task:system:cleaup_expired"
              THEN /\ \E h \in HSlots : cl[h].pc = "idle"
                   /\ cl' = [cl EXCEPT ![FreeSlot(cl)] =
                               [IdleCleanup EXCEPT !.pc = "started", !.limit = CleanupLimit,
                                                   !.task = TRUE, !.attempt = a]]
                   /\ tj' = tj
              ELSE /\ Cardinality(t.runs) < MaxHandlers
                   /\ UNCHANGED <<tj, cl>>
    /\ UNCHANGED <<files, nFiles, store, nUuid, upl, now, last, credVars, authVars>>

\* ProcessTaskGenerateThumbnail up to the return of imaging.Encode: a payload
\* that json.Unmarshal rejects gives an error wrapping asynq.SkipRetry;
\* GenerateThumbnail fetches the original with store.Get and decodes, resizes
\* and encodes it.  how: "ok", "decode" (an error of Get, Decode or Encode);
\* a call can fail only when the handler reaches it
ThumbnailGet(h, how) ==
    /\ tj[h].pc = "started"
    /\ how \in {"ok", "decode"}
    /\ tj[h].payload # "json" => how = "ok"
    /\ IF tj[h].payload # "json"
       THEN /\ tasks' = Filed(tasks, "task:image:generate_thumbnail", tj[h].file,
                              tj[h].attempt, UnmarshalError, FALSE)
            /\ tj' = [tj EXCEPT ![h] = IdleTJ]
       ELSE IF ~StoreHas(tj[h].key) \/ how = "decode"
       THEN /\ tasks' = Filed(tasks, "task:image:generate_thumbnail", tj[h].file,
                              tj[h].attempt, "error", FALSE)
            /\ tj' = [tj EXCEPT ![h] = IdleTJ]
       ELSE /\ tasks' = tasks
            /\ tj' = [tj EXCEPT ![h].pc = "fetched", ![h].img = store[tj[h].key]]
    /\ UNCHANGED <<files, nFiles, store, nUuid, upl, cl, now, last, credVars, authVars>>

\* thumbKey := "thumbnails/" + uuid.New().String() + ".jpg" and
\* store.Save(buf, thumbKey).  how: "ok", "save" (Save error, no object
\* left), "partial" (Save error after the object was created)
ThumbnailSave(h, how) ==
    /\ tj[h].pc = "fetched"
    /\ nUuid < MaxUuids
    /\ nUuid' = nUuid + 1
    /\ LET tk == ThumbKeyOf(nUuid + 1)
           failed == Filed(tasks, "task:image:generate_thumbnail", tj[h].file,
                           tj[h].attempt, "error", FALSE)
       IN  CASE how = "ok" ->
                  /\ store' = StoreSave(store, tk, ThumbOf(tj[h].img))
                  /\ tj' = [tj EXCEPT ![h].pc = "saved", ![h].thumb = tk]
                  /\ tasks' = tasks
            [] how = "save" ->
                  /\ store' = store
                  /\ tj' = [tj EXCEPT ![h] = IdleTJ]
                  /\ tasks' = failed
            [] how = "partial" ->
                  /\ store' = StoreSave(store, tk, Partial(tj[h].img[2]))
                  /\ tj' = [tj EXCEPT ![h] = IdleTJ]
                  /\ tasks' = failed
    /\ UNCHANGED <<files, nFiles, upl, cl, now, last, credVars, authVars>>

\* a row update that writes a key under which nothing was saved
UpdateFileThumbnailUnsaved(t, f, tk) ==
    IF f \in DOMAIN t THEN [t EXCEPT ![f].thumbnail_key = ThumbKeyOf(0)] ELSE t

\* update files set thumbnail_key = $1 where file_id = $2  (:exec)
UpdateFileThumbnail(t, f, tk) ==
    IF f \in DOMAIN t THEN [t EXCEPT ![f].thumbnail_key = tk] ELSE t

\* the row update that ends GenerateThumbnail, under a context of its own
\* (context.Background with 5 s), and its error arm; the handler returns
ThumbnailUpdate(h, dbOk, delOk) ==
    /\ tj[h].pc = "saved"
    /\ IF dbOk
       THEN /\ files' = UpdateFileThumbnail(files, tj[h].file, tj[h].thumb)
            /\ store' = store
       ELSE /\ files' = files
            /\ store' = RemoveObject(store, tj[h].thumb, delOk)
    /\ tasks' = Filed(tasks, "task:image:generate_thumbnail", tj[h].file, tj[h].attempt,
                      IF dbOk THEN "nil" ELSE "error", FALSE)
    /\ tj' = [tj EXCEPT ![h] = IdleTJ]
    /\ UNCHANGED <<nFiles, nUuid, upl, cl, now, last, credVars, authVars>>

\* ------------------------------------------------ versioned mutations
Response(op, c, f, r) == [op |-> op, caller |-> c, file |-> f, res |-> r, rows |-> <<>>]

\* where file_id = $2 and version = $3: the row an UPDATE of files matches
Matches(f, v) == f \in Rows /\ files[f].version = v

\* update files set visibility = $1, version = version + 1 where file_id = $2
\* and version = $3 returning visibility  (:one); sql.ErrNoRows becomes
\* ErrRecordNotFound in the service and 404 in the handler
SetFileVisibilityRes(f, v) == IF Matches(f, v) THEN "ok" ELSE "NotFound"

SetFileVisibility(c, f, v, vis) ==
    /\ Matches(f, v) => v < MaxVersion
    /\ files' = IF Matches(f, v)
                THEN [files EXCEPT ![f].visibility = vis, ![f].version = v + 1]
                ELSE files
    /\ UNCHANGED <<nFiles, store, nUuid, upl, tasks, tj, cl, now, credVars, authVars>>

\* a rename that also makes the file public
UpdateFileNamePublishing(c, f, v, name) ==
    /\ Matches(f, v) => v < MaxVersion
    /\ files' = IF Matches(f, v)
                THEN [files EXCEPT ![f].filename = name, ![f].visibility = "public",
                                   ![f].version = v + 1]
                ELSE files
    /\ UNCHANGED <<nFiles, store, nUuid, upl, tasks, tj, cl, now, credVars, authVars>>

\* update files set filename = $1, version = version + 1 where file_id = $2 and
\* version = $3; the service reads the new name back and maps sql.ErrNoRows to
\* ErrRecordNotFound
UpdateFileNameRes(f, v) == IF Matches(f, v) THEN "ok" ELSE "NotFound"

UpdateFileName(c, f, v, name) ==
    /\ Matches(f, v) => v < MaxVersion
    /\ files' = IF Matches(f, v)
                THEN [files EXCEPT ![f].filename = name, ![f].version = v + 1]
                ELSE files
    /\ UNCHANGED <<nFiles, store, nUuid, upl, tasks, tj, cl, now, credVars, authVars>>

\* ValidateDeleteFile: v.Check(version > 0, ...)
ValidateDeleteFile(v) == v > 0

\* update files set is_deleted = true, deleted_at = $1, version = version + 1
\* where file_id = $2 and version = $3  (:exec): no error when no row matches,
\* so the handler answers 200 whenever the request passed validation
DeleteFileRes(f, v) == IF ValidateDeleteFile(v) THEN "ok" ELSE "ValidationFailed"

DeleteFile(c, f, v) ==
    /\ (ValidateDeleteFile(v) /\ Matches(f, v)) => v < MaxVersion
    /\ files' = IF ValidateDeleteFile(v) /\ Matches(f, v)
                THEN [files EXCEPT ![f].is_deleted = TRUE,
                                   ![f].deleted_at = now + Retention,
                                   ![f].version = v + 1]
                ELSE files
    /\ UNCHANGED <<nFiles, store, nUuid, upl, tasks, tj, cl, now, credVars, authVars>>

\* ------------------------------------------------------------------ reads
\* select ... from files where is_deleted = false and file_id = $1
GetFileInfo(f) == f \in Rows /\ ~files[f].is_deleted

\* FileService.GetFileMetadata as answered by FileHandler.GetMetadata:
\* ErrAuthRequired from the service is not ErrRecordNotFound, so the handler
\* answers 500
GetFileMetadataRes(c, f) ==
    IF ~GetFileInfo(f) THEN "NotFound"
    ELSE IF files[f].user_id # c THEN "Internal"
    ELSE "ok"

GetMetadata(c, f) ==
    /\ GetFileMetadataRes(c, f) \in {"NotFound", "Internal", "ok"}
    /\ UNCHANGED <<fileVars, now, credVars, authVars>>

\* an ownership test that takes every authenticated caller for the owner
IsOwnerAnyUser(c, f) == c # NilUser

\* isOwner := userID != uuid.Nil && fileInfo.OwnerID == userID
IsOwner(c, f) == c # NilUser /\ files[f].user_id = c

\* FileService.DownloadFile as answered by FileHandler.Download
DownloadFileRes(c, f) ==
    IF ~GetFileInfo(f) THEN "NotFound"
    ELSE IF ~IsOwner(c, f) /\ files[f].visibility = "private" THEN "Forbidden"
    ELSE IF ~StoreHas(files[f].storage_key) THEN "ContentMissing"
    ELSE "Stream"

Download(c, f) ==
    /\ DownloadFileRes(c, f) \in {"NotFound", "Forbidden", "ContentMissing", "Stream"}
    /\ UNCHANGED <<fileVars, now, credVars, authVars>>

\* --------------------------------------------------------------- listings
Min(a, b) == IF a < b THEN a ELSE b
Max(S) == CHOOSE m \in S : \A x \in S : x <= m

\* order by f.created_at desc: file_ids are handed out in insertion order
RECURSIVE OrderByCreatedDesc(_)
OrderByCreatedDesc(S) ==
    IF S = {} THEN <<>> ELSE <<Max(S)>> \o OrderByCreatedDesc(S \ {Max(S)})

\* limit $n offset $m
LimitOffset(seq, limit, offset) == SubSeq(seq, offset + 1, Min(Len(seq), offset + limit))

\* ValidateFilters: 0 < page <= 10,000 and 0 < page_size <= 100
ValidateFilters(page, size) == page > 0 /\ page <= 10000 /\ size > 0 /\ size <= 100

\* a public listing whose query does not filter on is_deleted
ListPublicFilesWithTombstones(limit, offset) ==
    LimitOffset(OrderByCreatedDesc({f \in Rows : files[f].visibility = "public"}),
                limit, offset)

\* select ... from files f join users u on f.user_id = u.user_id where
\* f.visibility = 'public' and f.is_deleted = false order by f.created_at desc
\* limit $1 offset $2; files.user_id references users, so the join drops no row
ListPublicFiles(limit, offset) ==
    LimitOffset(OrderByCreatedDesc({f \in Rows : /\ files[f].visibility = "public"
                                                 /\ ~files[f].is_deleted}),
                limit, offset)

\* select ... from files f where f.user_id = $1 and f.is_deleted = false
\* order by f.created_at desc limit $2 offset $3
ListUserFiles(u, limit, offset) ==
    LimitOffset(OrderByCreatedDesc({f \in Rows : /\ files[f].user_id = u
                                                 /\ ~files[f].is_deleted}),
                limit, offset)

\* FileHandler.ListPublicFiles with FileService.ListPublicFiles: validation,
\* then limit = page_size and offset = (page - 1) * page_size; a database
\* error is answered 500; the handler never reads the principal
ListPublicFilesRequest(page, size, dbOk) ==
    /\ last' = IF ~ValidateFilters(page, size)
                THEN Response("ListPublic", NilUser, 0, "ValidationFailed")
                ELSE IF ~dbOk THEN Response("ListPublic", NilUser, 0, "Internal")
                ELSE [Response("ListPublic", NilUser, 0, "ok")
                        EXCEPT !.rows = ListPublicFiles(size, (page - 1) * size)]
    /\ UNCHANGED <<fileVars, now, credVars, authVars>>

\* FileHandler.ListMyFiles with FileService.ListUserFiles
ListMyFilesRequest(c, page, size, dbOk) ==
    /\ last' = IF c = NilUser
                THEN Response("ListMine", c, 0, "Unauthorized")
                ELSE IF ~ValidateFilters(page, size)
                THEN Response("ListMine", c, 0, "ValidationFailed")
                ELSE IF ~dbOk THEN Response("ListMine", c, 0, "Internal")
                ELSE [Response("ListMine", c, 0, "ok")
                        EXCEPT !.rows = ListUserFiles(c, size, (page - 1) * size)]
    /\ UNCHANGED <<fileVars, now, credVars, authVars>>

\* ------------------------------------------- CleanupExpiredSoftDeleted
\* select file_id, storage_key, thumbnail_key from files where is_deleted = true
\* and deleted_at < now() limit $1
Expired == {f \in Rows : files[f].is_deleted /\ files[f].deleted_at < now}

\* storagePaths: the storage key of every selected row, and its thumbnail key
\* when f.ThumbnailKey.Valid
StoragePaths(sel) ==
    {r.storage_key : r \in sel}
        \cup {r.thumbnail_key : r \in {x \in sel : x.thumbnail_key # NoKey}}

\* GetExpiredDeletedFiles with limit $1: the query has no order by, so its
\* result is any Min(limit, n) of the n expired tombstones
GetExpiredDeletedFiles(limit) ==
    {S \in SUBSET Expired : Cardinality(S) = Min(limit, Cardinality(Expired))}

\* the rows GetExpiredDeletedFiles returns for the file_ids S
SelectedRows(S) ==
    {[file_id |-> f, storage_key |-> files[f].storage_key,
      thumbnail_key |-> files[f].thumbnail_key] : f \in S}

\* CleanupExpiredSoftDeleted(ctx, 100) called on its own, up to the call of
\* CleanUpFiles; an empty result ends the run with nothing done
CleanupSelect(h, S) ==
    /\ cl[h].pc = "idle"
    /\ S \in GetExpiredDeletedFiles(CleanupLimit)
    /\ S # {}
    /\ cl' = [cl EXCEPT ![h] = [IdleCleanup EXCEPT !.pc = "selected", !.limit = CleanupLimit,
                                                   !.sel = SelectedRows(S)]]
    /\ UNCHANGED <<files, nFiles, store, nUuid, upl, tasks, tj, now, last, credVars, authVars>>

\* the context the task server gave the cleanup handler is done: the server
\* cancels it when it files the attempt as failed at its deadline or puts the
\* task back at a shutdown, and a database call made with it fails
CleanupCtxDone(h) ==
    /\ cl[h].task
    /\ ~\E t \in tasks : /\ t.type = "task:system:cleaup_expired"
                         /\ t.st = "active"
                         /\ t.attempts = cl[h].attempt

\* the tasks after a database call of the cleanup handler in slot h: its
\* error comes back to ProcessTaskCleanupSystem, which logs it at once
\* (p.logger.Error("failed to cleanup files"))
CleanupLogged(h, dbOk) ==
    IF cl[h].task /\ ~dbOk THEN LogLine(tasks, "task:system:cleaup_expired", 0) ELSE tasks

\* ProcessTaskCleanupSystem calls CleanupExpiredSoftDeleted(ctx, 100): the
\* query GetExpiredDeletedFiles; its error or an empty result ends the call
\* and the handler goes on to jobs.CleanUpExpired
CleanupFetch(h, S, dbOk) ==
    /\ cl[h].pc = "started"
    /\ CleanupCtxDone(h) => ~dbOk
    /\ IF dbOk THEN S \in GetExpiredDeletedFiles(cl[h].limit) ELSE S = {}
    /\ cl' = IF ~dbOk THEN [cl EXCEPT ![h].pc = "tokens", ![h].res = "error"]
             ELSE IF S = {} THEN [cl EXCEPT ![h].pc = "tokens", ![h].res = "ok"]
             ELSE [cl EXCEPT ![h].pc = "selected", ![h].sel = SelectedRows(S)]
    /\ tasks' = CleanupLogged(h, dbOk)
    /\ UNCHANGED <<files, nFiles, store, nUuid, upl, tj, now, last, credVars, authVars>>

\* utils.CleanUpFiles(s.store, s.logger, storagePaths): the bulk Delete removes
\* each key or counts it as a failure (a missing key counts as removed); K is
\* the set of keys it failed on, and the counts are only logged
CleanupObjects(h, K) ==
    /\ cl[h].pc = "selected"
    /\ K \subseteq StoragePaths(cl[h].sel) \cap DOMAIN store
    /\ store' = StoreDelete(store, StoragePaths(cl[h].sel) \ K)
    /\ cl' = [cl EXCEPT ![h].pc = "cleaned", ![h].failed = Cardinality(K)]
    /\ UNCHANGED <<files, nFiles, nUuid, upl, tasks, tj, now, last, credVars, authVars>>

\* a hard delete that is skipped when the object deletion counted a failure
CleanupRowsUnlessFailed(h, dbOk) ==
    /\ cl[h].pc = "cleaned"
    /\ CleanupCtxDone(h) => ~dbOk
    /\ files' = IF dbOk /\ cl[h].failed = 0
                THEN DeleteRows(files, {r.file_id : r \in cl[h].sel}) ELSE files
    /\ cl' = [cl EXCEPT ![h].pc = IF cl[h].task THEN "tokens" ELSE "idle",
                        ![h].res = IF dbOk THEN "ok" ELSE "error"]
    /\ tasks' = CleanupLogged(h, dbOk)
    /\ UNCHANGED <<nFiles, store, nUuid, upl, tj, now, last, credVars, authVars>>

\* delete from files where file_id = any($1::uuid[]), and its error arm; the
\* call of the processor logs the error and goes on to jobs.CleanUpExpired
CleanupRows(h, dbOk) ==
    /\ cl[h].pc = "cleaned"
    /\ CleanupCtxDone(h) => ~dbOk
    /\ files' = IF dbOk THEN DeleteRows(files, {r.file_id : r \in cl[h].sel}) ELSE files
    /\ cl' = [cl EXCEPT ![h].pc = IF cl[h].task THEN "tokens" ELSE "idle",
                        ![h].res = IF dbOk THEN "ok" ELSE "error"]
    /\ tasks' = CleanupLogged(h, dbOk)
    /\ UNCHANGED <<nFiles, store, nUuid, upl, tj, now, last, credVars, authVars>>

\* ------------------------------------------------------------------ clock
\* the clock is read at multiples of a step, at most MaxTicks of them
Tick(step) ==
    /\ now < MaxTicks * step
    /\ now' = now + step
    /\ UNCHANGED <<fileVars, last, credVars, authVars>>

\* ----------------------------------------------------------- action tokens
\* sha256.Sum256([]byte(plainText))
Sha256(plain) == <<"sha256", plain>>
\* security.HashPassword: a bcrypt hash of the password
HashPassword(pw) == <<"bcrypt", pw>>

UserRows == DOMAIN users
\* what a user submits at signup; ValidateUser requires names of 3 to 30
\* characters and a well-formed email
FirstNameOf(u) == IF u = "u1" THEN "Ann" ELSE "Bob"
LastNameOf(u) == IF u = "u1" THEN "Lee" ELSE "Roe"
EmailOf(u) == IF u = "u1" THEN "ann@x.io" ELSE "bob@x.io"

\* insert into users (first_name, last_name, email, password_hash): defaults
\* from the schema
NewUser(u, pw) ==
    [first_name |-> FirstNameOf(u), last_name |-> LastNameOf(u), email |-> EmailOf(u),
     role |-> "user", is_verified |-> FALSE, password_hash |-> HashPassword(pw),
     version |-> 0]
\* insert into action_tokens(user_id, purpose, token_hash, expires_at)
NewToken(u, purpose, plain, ttl) ==
    [user_id |-> u, purpose |-> purpose, token_hash |-> Sha256(plain), expires_at |-> now + ttl]

\* AuthService.Register: CreateUser (on conflict(email) do nothing), then
\* GenerateStringAndHash and CreateActionToken
Register(u, pw, tokOk) ==
    /\ nTok < MaxTokens
    /\ IF u \in UserRows
       THEN UNCHANGED <<users, tokens, nTok>>
       ELSE /\ users' = [x \in UserRows \cup {u} |-> IF x = u THEN NewUser(u, pw) ELSE users[x]]
            /\ nTok' = nTok + 1
            /\ tokens' = IF tokOk
                         THEN tokens \cup {NewToken(u, "email_verification", nTok + 1, VerificationTTL)}
                         ELSE tokens
    /\ UNCHANGED <<fileVars, authVars, now, last, att>>

\* AuthService.SendPasswordResetLink: the insert fails for an unknown user_id
\* (foreign key) or on a database error
SendPasswordResetLink(u, tokOk) ==
    /\ nTok < MaxTokens
    /\ nTok' = nTok + 1
    /\ tokens' = IF u \in UserRows /\ tokOk
                 THEN tokens \cup {NewToken(u, "password_reset", nTok + 1, ResetTTL)}
                 ELSE tokens
    /\ UNCHANGED <<fileVars, authVars, now, last, users, att>>

\* a lookup that takes a token of either purpose
GetActionTokenForUserAnyPurpose(h, purpose, u, t) ==
    {r \in tokens : /\ r.token_hash = h
                    /\ r.user_id = u
                    /\ u \in UserRows
                    /\ r.expires_at > t}

\* select ... from action_tokens at join users u using (user_id) where
\* at.token_hash = $1 and at.purpose = $2 and u.user_id = $3 and at.expires_at > $4
GetActionTokenForUser(h, purpose, u, t) ==
    {r \in tokens : /\ r.token_hash = h
                    /\ r.purpose = purpose
                    /\ r.user_id = u
                    /\ u \in UserRows
                    /\ r.expires_at > t}

\* the call returns: the slot keeps the request and what the caller was told
AttemptDone(a, r) ==
    [att EXCEPT ![a] = [IdleAttempt EXCEPT !.pc = "done", !.op = att[a].op,
                                           !.user = att[a].user, !.plain = att[a].plain,
                                           !.res = r]]

\* the token lookup that opens ActivateUser and VerifyPasswordReset
ConsumeLookup(a, op, purpose, u, plain, pw) ==
    /\ att[a].pc \in {"idle", "done"}
    /\ LET call == [pc |-> "found", op |-> op, user |-> u, plain |-> plain, pw |-> pw,
                    version |-> 0, res |-> "none"]
       IN  IF GetActionTokenForUser(Sha256(plain), purpose, u, now) = {}
           THEN att' = [att EXCEPT ![a] = [IdleAttempt EXCEPT !.pc = "done", !.op = op,
                                             !.user = u, !.plain = plain, !.res = "NotFound"]]
           ELSE att' = [att EXCEPT ![a] = [call EXCEPT !.version = users[u].version]]
    /\ UNCHANGED <<fileVars, authVars, now, last, users, tokens, nTok>>

ActivateLookup(a, u, plain) ==
    ConsumeLookup(a, "activate", "email_verification", u, plain, "none")

\* update users set is_verified = true, version = version + 1 where user_id = $1
\* and version = $2 returning is_verified  (:one)
ActivateUserEmail(t, u, v) ==
    [x \in DOMAIN t |-> IF x = u /\ t[x].version = v
                        THEN [t[x] EXCEPT !.is_verified = TRUE, !.version = v + 1]
                        ELSE t[x]]

\* ActivateUser: the versioned write; sql.ErrNoRows becomes ErrEditConflict
ActivateWrite(a) ==
    /\ att[a].pc = "found"
    /\ att[a].op = "activate"
    /\ LET u == att[a].user
           hit == u \in UserRows /\ users[u].version = att[a].version
       IN  /\ hit => att[a].version < MaxUserVersion
           /\ users' = ActivateUserEmail(users, u, att[a].version)
           /\ att' = IF hit THEN [att EXCEPT ![a].pc = "written"]
                     ELSE AttemptDone(a, "EditConflict")
    /\ UNCHANGED <<fileVars, authVars, now, last, tokens, nTok>>

\* delete from action_tokens where token_hash = $1 and user_id = $2
DeleteActionToken(t, h, u) == {r \in t : ~(r.token_hash = h /\ r.user_id = u)}

\* ActivateUser: the token delete that ends it, and its error arm
ActivateDelete(a, dbOk) ==
    /\ att[a].pc = "written"
    /\ tokens' = IF dbOk THEN DeleteActionToken(tokens, Sha256(att[a].plain), att[a].user)
                 ELSE tokens
    /\ att' = AttemptDone(a, IF dbOk THEN "ok" ELSE "Internal")
    /\ UNCHANGED <<fileVars, authVars, now, last, users, nTok>>

ResetLookup(a, u, plain, pw) ==
    ConsumeLookup(a, "reset", "password_reset", u, plain, pw)

\* update users set password_hash = $1, version = version + 1 where user_id = $2
\* and version = $3  (:exec)
ChangePassword(t, h, u, v) ==
    [x \in DOMAIN t |-> IF x = u /\ t[x].version = v
                        THEN [t[x] EXCEPT !.password_hash = h, !.version = v + 1]
                        ELSE t[x]]

\* VerifyPasswordReset after the lookup: ChangePasswordParams carries the hash
\* and the version but no UserID, so $2 is uuid.Nil; an :exec that matches no
\* row is no error and the call reports success; the token is not deleted
ResetWrite(a, dbOk) ==
    /\ att[a].pc = "found"
    /\ att[a].op = "reset"
    /\ users' = IF dbOk
                THEN ChangePassword(users, HashPassword(att[a].pw), NilUser, att[a].version)
                ELSE users
    /\ att' = AttemptDone(a, IF dbOk THEN "ok" ELSE "Internal")
    /\ UNCHANGED <<fileVars, authVars, now, last, tokens, nTok>>

\* ------------------------------------------------------------ access tokens
JwtSecret == "server-secret"        \* AuthService.jwtSecret
HmacAlgs == {"HS256", "HS384", "HS512"}

\* a JSON string claim and a JSON number claim
Str(v) == <<"string", v>>
Num(v) == <<"number", v>>

\* strconv.FormatBool
FormatBool(b) == IF b THEN "true" ELSE "false"
\* strconv.ParseBool: the accepted spellings; anything else is an error
ParsesAsTrue == {"1", "t", "T", "TRUE", "true", "True"}
ParsesAsFalse == {"0", "f", "F", "FALSE", "false", "False"}
\* uuid.Parse succeeds on the textual form of a UUID
UuidParses(v) == v \in Users \cup {NilUser}

\* the HMAC of header and claims under a key
Sign(key, alg, claims) == <<"mac", key, alg, claims>>

\* an access token that always says the user is unverified
GenerateAccessTokenUnverified(u, row, t) ==
    LET claims == [sub |-> Str(u),
                   first_name |-> Str(row.first_name),
                   last_name |-> Str(row.last_name),
                   email |-> Str(row.email),
                   role |-> Str(row.role),
                   is_verified |-> Str(FormatBool(FALSE)),
                   exp |-> Num(t + AccessTTL)]
    IN  [wire |-> "jwt", alg |-> "HS256", sig |-> Sign(JwtSecret, "HS256", claims),
         claims |-> claims]

\* generateAccessToken: jwt.NewWithClaims(jwt.SigningMethodHS256, claims) and
\* token.SignedString(s.jwtSecret); iat is not validated and left out
GenerateAccessToken(u, row, t) ==
    LET claims == [sub |-> Str(u),
                   first_name |-> Str(row.first_name),
                   last_name |-> Str(row.last_name),
                   email |-> Str(row.email),
                   role |-> Str(row.role),
                   is_verified |-> Str(FormatBool(row.is_verified)),
                   exp |-> Num(t + AccessTTL)]
    IN  [wire |-> "jwt", alg |-> "HS256", sig |-> Sign(JwtSecret, "HS256", claims),
         claims |-> claims]

Validation(r, p) == [res |-> r, principal |-> p]

\* getStringClaim: val, ok := claims[key].(string); !ok || val == "" is an error
HasStringClaim(claims, key) ==
    /\ key \in DOMAIN claims
    /\ claims[key][1] = "string"
    /\ claims[key][2] # ""

\* newUserFromClaims
NewUserFromClaims(claims) ==
    IF \E key \in {"sub", "first_name", "last_name", "email", "role", "is_verified"} :
          ~HasStringClaim(claims, key)
    THEN Validation("InvalidClaims", NoPrincipal)
    ELSE IF ~UuidParses(claims["sub"][2])
    THEN Validation("InvalidClaims", NoPrincipal)
    ELSE IF claims["is_verified"][2] \notin ParsesAsTrue \cup ParsesAsFalse
    THEN Validation("InvalidClaims", NoPrincipal)
    ELSE Validation("ok",
             ContextUser("user", claims["sub"][2], claims["first_name"][2],
                         claims["last_name"][2], claims["email"][2], claims["role"][2],
                         claims["is_verified"][2] \in ParsesAsTrue))

\* a validation that does not look at exp
ValidateTokenIgnoringExpiry(tok, t) ==
    IF tok.wire # "jwt" THEN Validation("InvalidToken", NoPrincipal)
    ELSE IF tok.alg \notin HmacAlgs THEN Validation("InvalidToken", NoPrincipal)
    ELSE IF tok.sig # Sign(JwtSecret, tok.alg, tok.claims)
    THEN Validation("InvalidToken", NoPrincipal)
    ELSE NewUserFromClaims(tok.claims)

\* ValidateToken at time t: jwt.Parse splits the token (malformed is an
\* error), runs the key function (a method that is not HMAC is an error),
\* verifies the signature and then the registered claims (exp must lie after
\* t); jwt.ErrTokenExpired becomes ErrExpiredToken, every other error
\* ErrInvalidToken
ValidateToken(tok, t) ==
    IF tok.wire # "jwt" THEN Validation("InvalidToken", NoPrincipal)
    ELSE IF tok.alg \notin HmacAlgs THEN Validation("InvalidToken", NoPrincipal)
    ELSE IF tok.sig # Sign(JwtSecret, tok.alg, tok.claims)
    THEN Validation("InvalidToken", NoPrincipal)
    ELSE IF "exp" \in DOMAIN tok.claims /\ ~(t < tok.claims["exp"][2])
    THEN Validation("ExpiredToken", NoPrincipal)
    ELSE NewUserFromClaims(tok.claims)

\* the principal that describes a user row
PrincipalOf(u, row) ==
    ContextUser("user", u, row.first_name, row.last_name, row.email, row.role,
                row.is_verified)

\* the client keeps the access token it was handed, with what the users row
\* said when the token was minted
Hold(u, r, k) ==
    [token |-> GenerateAccessToken(u, users[u], now), principal |-> PrincipalOf(u, users[u]),
     refresh |-> r, n |-> k]

AuthResponse(op, r, p, n) == [op |-> op, res |-> r, principal |-> p, next |-> n]

\* insert into refresh_tokens(user_id, token, expires_at, created_at, revoked)
NewRefreshToken(u, tok, ttl) ==
    [token |-> tok, user_id |-> u, expires_at |-> now + ttl, revoked |-> FALSE]

\* AuthService.LoginWithRefresh as answered by AuthHandler.LoginWithRefresh:
\* GetUserByEmail, VerifyPassword, generateAccessToken, CreateRefreshToken
\* with Token: uuid.NewString(); every error is answered 401
LoginWithRefresh(u, pw, dbOk) ==
    /\ nRefresh < MaxLogins
    /\ IF u \notin UserRows \/ users[u].password_hash # HashPassword(pw)
       THEN /\ auth' = AuthResponse("Login", "InvalidCredentials", NoPrincipal, 0)
            /\ UNCHANGED <<refresh, nRefresh, held>>
       ELSE /\ nRefresh' = nRefresh + 1
            /\ IF dbOk
               THEN /\ refresh' = refresh \cup {NewRefreshToken(u, nRefresh + 1, RefreshTTL)}
                    /\ held' = Hold(u, nRefresh + 1, 0)
                    /\ auth' = AuthResponse("Login", "ok", NoPrincipal, 0)
               ELSE /\ auth' = AuthResponse("Login", "InvalidCredentials", NoPrincipal, 0)
                    /\ UNCHANGED <<refresh, held>>
    /\ UNCHANGED <<fileVars, now, last, credVars, app, apiKeys, gen, nSecret>>

\* select ... from refresh_tokens where token = $1  (:one)
GetRefreshToken(tok) == {r \in refresh : r.token = tok}

\* a refresh outcome that never looks at expires_at
RefreshOutcomeIgnoringExpiry(tok, db, t) ==
    IF GetRefreshToken(tok) = {} \/ db = "token error" THEN "InvalidToken"
    ELSE LET row == CHOOSE r \in GetRefreshToken(tok) : TRUE
         IN  IF row.revoked THEN "InvalidToken"
             ELSE IF row.user_id \notin UserRows \/ db = "user error" THEN "UnexpectedError"
             ELSE "ok"

\* RefreshAccessToken: any error of GetRefreshToken is ErrInvalidToken, a
\* revoked row is ErrInvalidToken, time.Now().After(token.ExpiresAt) is
\* ErrExpiredToken, an error of GetUserByID is ErrUnexpectedError
\* db: "ok", "token error" (GetRefreshToken fails), "user error" (GetUserByID fails)
RefreshOutcome(tok, db, t) ==
    IF GetRefreshToken(tok) = {} \/ db = "token error" THEN "InvalidToken"
    ELSE LET row == CHOOSE r \in GetRefreshToken(tok) : TRUE
         IN  IF row.revoked THEN "InvalidToken"
             ELSE IF t > row.expires_at THEN "ExpiredToken"
             ELSE IF row.user_id \notin UserRows \/ db = "user error" THEN "UnexpectedError"
             ELSE "ok"

\* AuthService.RefreshAccessToken as answered by AuthHandler.Refresh: no
\* statement of it writes to refresh_tokens
RefreshAccessToken(tok, db) ==
    /\ LET out == RefreshOutcome(tok, db, now)
       IN  /\ auth' = AuthResponse("Refresh", out, NoPrincipal, 0)
           /\ held' = IF out = "ok"
                      THEN LET row == CHOOSE r \in GetRefreshToken(tok) : TRUE
                           IN  Hold(row.user_id, tok,
                                    IF held.refresh = tok THEN Min(held.n + 1, 2) ELSE 1)
                      ELSE held
    /\ UNCHANGED <<fileVars, now, last, credVars, app, refresh, nRefresh, apiKeys, gen, nSecret>>

\* update refresh_tokens set revoked = true where token = $1
RevokeRefreshToken(tok) ==
    /\ refresh' = {IF r.token = tok THEN [r EXCEPT !.revoked = TRUE] ELSE r : r \in refresh}
    /\ UNCHANGED <<fileVars, now, last, credVars, app, nRefresh, held, auth, apiKeys, gen, nSecret>>

\* delete from refresh_tokens where expires_at < now()
DeleteExpiredRefreshTokens ==
    /\ refresh' = {r \in refresh : ~(r.expires_at < now)}
    /\ UNCHANGED <<fileVars, now, last, credVars, app, nRefresh, held, auth, apiKeys, gen, nSecret>>

\* AuthService.ValidateToken applied to a presented token
ValidateRequest(tok) ==
    /\ LET v == ValidateToken(tok, now)
       IN  auth' = AuthResponse("Validate", v.res, v.principal, 0)
    /\ UNCHANGED <<fileVars, now, last, credVars, app, refresh, nRefresh, held, apiKeys, gen,
                   nSecret>>

\* ---------------------------------------------------------------- API keys
\* Strings that are split are sequences of pieces; "_" is a piece of its own.
ApiKeyPrefix == "fs"                \* cfg.apiKeyPrefix = ShortProjectPrefix(PROJECT_NAME)
RandomTexts == {"r1", "r2"}         \* what rand.Text()[:apiKeyPrefixLen] may yield
SecretTexts == <<"s1", "s2", "s3">>     \* the secrets rand.Text() yields, in order

\* strings.SplitN(s, sep, 2): one part when sep does not occur, else the text
\* before the first sep and all the text after it
SplitN2(s, sep) ==
    IF \A i \in 1..Len(s) : s[i] # sep THEN <<s>>
    ELSE LET i == CHOOSE k \in 1..Len(s) : s[k] = sep /\ \A j \in 1..(k - 1) : s[j] # sep
         IN  <<SubSeq(s, 1, i - 1), SubSeq(s, i + 1, Len(s))>>

\* select count(*) from api_keys where prefix = $1
CheckIfAPIKeyExists(prefix) == Cardinality({k \in apiKeys : k.prefix = prefix})

\* select ... from api_keys ak join users u using(user_id) where prefix = $1
GetApiKeyByPrefix(prefix) == {k \in apiKeys : k.prefix = prefix /\ k.user_id \in UserRows}

GenDone(g, r, key) == [gen EXCEPT ![g] = [IdleGen EXCEPT !.pc = "done", !.res = r, !.key = key]]

\* AuthHandler.CreateAPIKey up to the call of GenerateAPIKey.  The route is
\* behind RequireActivatedUser, so the caller is a verified user.  expires_at
\* of the request is optional (reqExpires = NoTime) and must lie after now;
\* without it the key lives 90 days.
CreateAPIKey(g, u, reqExpires) ==
    /\ gen[g].pc \in {"idle", "done"}
    /\ nSecret + Cardinality({x \in GenSlots : gen[x].pc \in {"check", "insert"}}) < MaxSecrets
    /\ u \in UserRows
    /\ users[u].is_verified
    /\ gen' = IF reqExpires # NoTime /\ ~(reqExpires > now)
              THEN GenDone(g, "FailedValidation", <<>>)
              ELSE [gen EXCEPT ![g] = [IdleGen EXCEPT !.pc = "check", !.user = u,
                        !.expires = IF reqExpires = NoTime THEN now + DefaultKeyTTL
                                    ELSE reqExpires]]
    /\ UNCHANGED <<fileVars, now, last, credVars, app, refresh, nRefresh, held, auth, apiKeys,
                   nSecret>>

\* GenerateAPIKey, one pass of the loop: a candidate prefix is drawn and
\* CheckIfAPIKeyExists counts the rows that carry it; a free prefix leaves the
\* loop, the fifth taken prefix is the error "failed to generate unique api
\* key prefix" (res "no unique prefix"); the handler answers every error 500
GenerateAPIKeyCheck(g, text, dbOk) ==
    /\ gen[g].pc = "check"
    /\ LET prefix == <<ApiKeyPrefix, text>>
       IN  gen' = IF ~dbOk THEN GenDone(g, "database error", <<>>)
                  ELSE IF CheckIfAPIKeyExists(prefix) = 0
                  THEN [gen EXCEPT ![g].pc = "insert", ![g].prefix = prefix]
                  ELSE IF gen[g].i = PrefixAttempts - 1
                  THEN GenDone(g, "no unique prefix", <<>>)
                  ELSE [gen EXCEPT ![g].i = gen[g].i + 1]
    /\ UNCHANGED <<fileVars, now, last, credVars, app, refresh, nRefresh, held, auth, apiKeys,
                   nSecret>>

\* insert into api_keys (user_id, name, key_hash, prefix, scope, expires_at)
NewApiKey(u, prefix, secret, expires) ==
    [prefix |-> prefix, key_hash |-> HashPassword(secret), user_id |-> u,
     expires_at |-> expires, is_revoked |-> FALSE]

\* an insert that does not enforce UNIQUE(prefix)
CreateApiKeyNotUnique(row, dbOk) == dbOk

\* CreateApiKey succeeds unless the statement fails or the prefix is taken:
\* prefix VARCHAR(20) NOT NULL UNIQUE
CreateApiKey(row, dbOk) == dbOk /\ CheckIfAPIKeyExists(row.prefix) = 0

\* GenerateAPIKey after the loop: a secret is drawn and hashed, CreateApiKey
\* inserts the row, and the full key prefix + "_" + secret is returned
GenerateAPIKeyInsert(g, dbOk) ==
    /\ gen[g].pc = "insert"
    /\ LET secret == <<SecretTexts[nSecret + 1]>>
           row == NewApiKey(gen[g].user, gen[g].prefix, secret, gen[g].expires)
       IN  /\ nSecret' = nSecret + 1
           /\ IF CreateApiKey(row, dbOk)
              THEN /\ apiKeys' = apiKeys \cup {row}
                   /\ gen' = GenDone(g, "ok", row.prefix \o <<"_">> \o secret)
              ELSE /\ gen' = GenDone(g, "database error", <<>>)
                   /\ UNCHANGED apiKeys
    /\ UNCHANGED <<fileVars, now, last, credVars, app, refresh, nRefresh, held, auth>>

\* a validation that never looks at expires_at
ValidateAPIKeyIgnoringExpiry(keyString, dbOk, t) ==
    LET parts == SplitN2(keyString, "_")
    IN  IF Len(parts) # 2 THEN Validation("invalid api key format", NoPrincipal)
        ELSE IF ~dbOk THEN Validation("UnexpectedError", NoPrincipal)
        ELSE IF GetApiKeyByPrefix(parts[1]) = {}
        THEN Validation("invalid api key prefix", NoPrincipal)
        ELSE LET k == CHOOSE r \in GetApiKeyByPrefix(parts[1]) : TRUE
             IN  IF k.key_hash # HashPassword(parts[2])
                 THEN Validation("invalid api key", NoPrincipal)
                 ELSE Validation("ok", PrincipalOf(k.user_id, users[k.user_id]))

\* APIKeyService.ValidateAPIKey at time t, its answer.  expires_at is never
\* the zero time; is_revoked is not read; on success the update of
\* last_used_at is started in the background (UpdateLastUsedDetached)
ValidateAPIKey(keyString, dbOk, t) ==
    LET parts == SplitN2(keyString, "_")
    IN  IF Len(parts) # 2 THEN Validation("invalid api key format", NoPrincipal)
        ELSE IF ~dbOk THEN Validation("UnexpectedError", NoPrincipal)
        ELSE IF GetApiKeyByPrefix(parts[1]) = {}
        THEN Validation("invalid api key prefix", NoPrincipal)
        ELSE LET k == CHOOSE r \in GetApiKeyByPrefix(parts[1]) : TRUE
             IN  IF t > k.expires_at THEN Validation("api key has expired", NoPrincipal)
                 ELSE IF k.key_hash # HashPassword(parts[2])
                 THEN Validation("invalid api key", NoPrincipal)
                 ELSE Validation("ok", PrincipalOf(k.user_id, users[k.user_id]))

\* -------------------------------------------------------------- middleware
\* An Authorization header is a sequence of items: spaces, words, and
\* credentials (a JWT or the text of an API key).  No header is <<>>.
Space == [kind |-> "space", v |-> ""]
Word(w) == [kind |-> "word", v |-> w]
Jwt(tok) == [kind |-> "jwt", v |-> tok]
Key(text) == [kind |-> "key", v |-> text]

\* strings.Split(s, " "): the fields between the spaces, n + 1 fields for n spaces
RECURSIVE Split(_)
Split(s) ==
    IF \A i \in 1..Len(s) : s[i].kind # "space" THEN <<s>>
    ELSE LET i == CHOOSE k \in 1..Len(s) :
                      s[k].kind = "space" /\ \A j \in 1..(k - 1) : s[j].kind # "space"
         IN  <<SubSeq(s, 1, i - 1)>> \o Split(SubSeq(s, i + 1, Len(s)))

IsWord(field, w) == Len(field) = 1 /\ field[1].kind = "word" /\ field[1].v = w
\* the credential as ValidateToken reads it: any text that is not a JWT fails to parse
AsToken(field) == IF Len(field) = 1 /\ field[1].kind = "jwt" THEN field[1].v ELSE GarbageToken
\* the credential as ValidateAPIKey reads it: a JWT begins with a header that
\* holds no "_" and ends at a ".", which no prefix contains
AsKeyText(field) == IF Len(field) = 1 /\ field[1].kind = "key" THEN field[1].v ELSE <<"eyJ.">>

\* what a middleware did: the status it wrote (res, "next" when it wrote
\* none), the principal it put in the request context, and the number of
\* calls of next.ServeHTTP
Chain(r, p, n) == [res |-> r, principal |-> p, next |-> n]

\* an AuthMiddleware that reads every scheme but ApiKey as Bearer
AuthMiddlewareAnyScheme(header, dbOk, t) ==
    IF Len(header) = 0 THEN Chain("next", AnonymousUser, 1)
    ELSE LET parts == Split(header)
         IN  IF Len(parts) # 2 THEN Chain("Unauthorized", NoPrincipal, 0)
             ELSE LET v == IF IsWord(parts[1], "ApiKey")
                           THEN ValidateAPIKey(AsKeyText(parts[2]), dbOk, t)
                           ELSE ValidateToken(AsToken(parts[2]), t)
                  IN  IF v.res # "ok" THEN Chain("Unauthorized", NoPrincipal, 0)
                      ELSE Chain("next", v.principal, 1)

\* AuthMiddleware
AuthMiddleware(header, dbOk, t) ==
    IF Len(header) = 0 THEN Chain("next", AnonymousUser, 1)
    ELSE LET parts == Split(header)
         IN  IF Len(parts) # 2 THEN Chain("Unauthorized", NoPrincipal, 0)
             ELSE LET v == IF IsWord(parts[1], "Bearer")
                           THEN ValidateToken(AsToken(parts[2]), t)
                           ELSE IF IsWord(parts[1], "ApiKey")
                           THEN ValidateAPIKey(AsKeyText(parts[2]), dbOk, t)
                           ELSE Validation("unsupported authorization scheme", NoPrincipal)
                  IN  IF v.res # "ok" THEN Chain("Unauthorized", NoPrincipal, 0)
                      ELSE Chain("next", v.principal, 1)

\* a RequireActivatedUser that does not look at IsActivated
RequireAuthenticatedUser(p) ==
    IF p.kind = "none" THEN Chain("Unauthorized", p, 0)
    ELSE IF p.kind = "anonymous" THEN Chain("Unauthorized", p, 0)
    ELSE Chain("next", p, 1)

\* RequireActivatedUser on a request whose context holds p (kind "none": the
\* context holds no user)
RequireActivatedUser(p) ==
    IF p.kind = "none" THEN Chain("Unauthorized", p, 0)
    ELSE IF p.kind = "anonymous" THEN Chain("Unauthorized", p, 0)
    ELSE IF ~p.IsActivated THEN Chain("InactiveAccount", p, 0)
    ELSE Chain("next", p, 1)

\* the answer to a request to a route behind AuthMiddleware alone
\* (GET /files): the handler is the next of AuthMiddleware
OpenAnswer(header, dbOk) ==
    LET a == AuthMiddleware(header, dbOk, now)
    IN  AuthResponse("Open", IF a.next = 1 THEN "ok" ELSE a.res, a.principal, a.next)

\* AuthMiddleware called ValidateAPIKey and the key was accepted
KeyAccepted(header, dbOk, t) ==
    /\ Len(header) # 0
    /\ Len(Split(header)) = 2
    /\ ~IsWord(Split(header)[1], "Bearer")
    /\ IsWord(Split(header)[1], "ApiKey")
    /\ ValidateAPIKey(AsKeyText(Split(header)[2]), dbOk, t).res = "ok"

\* what a request through AuthMiddleware does to the application: an
\* accepted API key starts the detached update of last_used_at
MiddlewareDetaches(header, dbOk) ==
    /\ KeyAccepted(header, dbOk, now) => FreeSlots(app) # {}
    /\ app' = IF KeyAccepted(header, dbOk, now) THEN UpdateLastUsedDetached(app) ELSE app

OpenRoute(header, dbOk) ==
    /\ auth' = OpenAnswer(header, dbOk)
    /\ MiddlewareDetaches(header, dbOk)
    /\ UNCHANGED <<fileVars, now, last, credVars, refresh, nRefresh, held, apiKeys, gen,
                   nSecret>>

\* a request to a route behind AuthMiddleware and RequireActivatedUser
\* (GET /files/me): the handler is the next of RequireActivatedUser
GuardedRoute(header, dbOk) ==
    /\ LET a == AuthMiddleware(header, dbOk, now)
           b == IF a.next = 1 THEN RequireActivatedUser(a.principal) ELSE a
       IN  auth' = AuthResponse("Guarded", IF b.next = 1 THEN "ok" ELSE b.res, b.principal,
                                b.next)
    /\ MiddlewareDetaches(header, dbOk)
    /\ UNCHANGED <<fileVars, now, last, credVars, refresh, nRefresh, held, apiKeys, gen,
                   nSecret>>

\* APIKeyService.ValidateAPIKey applied to a presented key: the answer is
\* returned at once and, when the key is valid, the update of last_used_at
\* has been handed to BackgroundTask
ValidateKeyRequest(keyString, dbOk) ==
    /\ LET v == ValidateAPIKey(keyString, dbOk, now)
       IN  /\ v.res = "ok" => FreeSlots(app) # {}
           /\ auth' = AuthResponse("ValidateKey", v.res, v.principal, 0)
           /\ app' = IF v.res = "ok" THEN UpdateLastUsedDetached(app) ELSE app
    /\ UNCHANGED <<fileVars, now, last, credVars, refresh, nRefresh, held, apiKeys, gen,
                   nSecret>>

\* ----------------------------------------------------------- specifications
Versions == 0..MaxVersion
Visibilities == {"public", "private"}
Callers == Users \cup {NilUser}
SaveOutcomes == {"ok", "error", "partial"}

\* the handler's answer to a request, as the client sees it
Respond(op, c, f, r) == last' = Response(op, c, f, r)

\* FileHandler.SetFileVisibility and FileHandler.UpdateFileName answer what
\* the service returns once the request has passed ValidateVisibility or
\* ValidateFileNameChange.  The two validators are not part of the source;
\* the requests drawn here, a visibility of the enum and a name of Names with
\* any version, are the well-formed bodies of the HTTP surface and pass
SetVisibilityRequest(c, f, v, vis) ==
    SetFileVisibility(c, f, v, vis) /\ Respond("SetVisibility", c, f, SetFileVisibilityRes(f, v))

RenameRequest(c, f, v, name) ==
    UpdateFileName(c, f, v, name) /\ Respond("Rename", c, f, UpdateFileNameRes(f, v))

SoftDeleteRequest(c, f, v) ==
    DeleteFile(c, f, v) /\ Respond("SoftDelete", c, f, DeleteFileRes(f, v))

GetMetadataRequest(c, f) ==
    GetMetadata(c, f) /\ Respond("GetMetadata", c, f, GetFileMetadataRes(c, f))

DownloadRequest(c, f) ==
    Download(c, f) /\ Respond("Download", c, f, DownloadFileRes(c, f))

\* Spec: the requests of activated users and anonymous downloads against one
\* uploaded file; every single-statement handler records its answer.
RequestUpload ==
    \/ \E u \in Users, c \in Contents, how \in SaveOutcomes, delOk \in BOOLEAN :
          nUuid < MaxRequestFiles /\ UploadSave(1, u, c, how, delOk)
    \/ \E dbOk \in BOOLEAN, delOk \in BOOLEAN : UploadLookup(1, dbOk, delOk)
    \/ \E name \in Names, dbOk \in BOOLEAN, enqOk \in BOOLEAN, delOk \in BOOLEAN :
          UploadInsert(1, name, dbOk, enqOk, delOk)

RequestSetVisibility ==
    \E c \in Users, f \in FileIds, v \in Versions, vis \in Visibilities :
        SetVisibilityRequest(c, f, v, vis)

RequestRename ==
    \E c \in Users, f \in FileIds, v \in Versions, name \in Names :
        RenameRequest(c, f, v, name)

RequestSoftDelete ==
    \E c \in Users, f \in FileIds, v \in Versions : SoftDeleteRequest(c, f, v)

RequestGetMetadata ==
    \E c \in Users, f \in FileIds : GetMetadataRequest(c, f)

RequestDownload ==
    \E c \in Callers, f \in FileIds : DownloadRequest(c, f)

Next ==
    \/ RequestUpload
    \/ RequestSetVisibility
    \/ RequestRename
    \/ RequestSoftDelete
    \/ RequestGetMetadata
    \/ RequestDownload

Spec == Init /\ [][Next]_vars

\* SpecUpload: concurrent UploadFile calls, with visibility changes and soft
\* deletes in between.
ConcurrentUpload ==
    \/ \E p \in Slots, u \in Users, c \in Contents, how \in SaveOutcomes, delOk \in BOOLEAN :
          nUuid < MaxUploads /\ UploadSave(p, u, c, how, delOk)
    \/ \E p \in Slots, dbOk \in BOOLEAN, delOk \in BOOLEAN : UploadLookup(p, dbOk, delOk)
    \/ \E p \in Slots, dbOk \in BOOLEAN, enqOk \in BOOLEAN, delOk \in BOOLEAN :
          UploadInsert(p, "a", dbOk, enqOk, delOk)

SetVisibilityAny ==
    \E c \in Users, f \in FileIds, v \in Versions :
        SetFileVisibility(c, f, v, "public") /\ UNCHANGED last

SoftDeleteAny ==
    \E c \in Users, f \in FileIds, v \in Versions : DeleteFile(c, f, v) /\ UNCHANGED last

NextUpload ==
    \/ ConcurrentUpload
    \/ SetVisibilityAny
    \/ SoftDeleteAny

SpecUpload == Init /\ [][NextUpload]_vars

\* SpecLifecycle: a file from upload through thumbnailing and soft delete to
\* the reaper, under a running clock.
LifecycleUpload ==
    \/ \E u \in Users, c \in Contents, how \in SaveOutcomes, delOk \in BOOLEAN :
          nUuid < MaxRequestFiles /\ UploadSave(1, u, c, how, delOk)
    \/ \E dbOk \in BOOLEAN, delOk \in BOOLEAN : UploadLookup(1, dbOk, delOk)
    \/ \E dbOk \in BOOLEAN, enqOk \in BOOLEAN, delOk \in BOOLEAN :
          UploadInsert(1, "a", dbOk, enqOk, delOk)

Thumbnail ==
    \/ \E t \in tasks : TakeTask(t)
    \/ \E h \in HSlots, how \in {"ok", "decode"} : ThumbnailGet(h, how)
    \/ \E h \in HSlots, how \in {"ok", "save", "partial"} : ThumbnailSave(h, how)
    \/ \E h \in HSlots, dbOk \in BOOLEAN, delOk \in BOOLEAN : ThumbnailUpdate(h, dbOk, delOk)

\* one call of CleanupExpiredSoftDeleted at a time
Cleanup ==
    \/ \E S \in SUBSET Rows : CleanupSelect(1, S)
    \/ \E K \in SUBSET DOMAIN store : CleanupObjects(1, K)
    \/ \E dbOk \in BOOLEAN : CleanupRows(1, dbOk)

Reads ==
    \/ \E c \in Users, f \in FileIds : GetMetadata(c, f) /\ UNCHANGED last
    \/ \E c \in Callers, f \in FileIds : Download(c, f) /\ UNCHANGED last

NextLifecycle ==
    \/ LifecycleUpload
    \/ Thumbnail
    \/ SetVisibilityAny
    \/ SoftDeleteAny
    \/ Cleanup
    \/ Reads
    \/ Tick(Retention)

SpecLifecycle == Init /\ [][NextLifecycle]_vars

\* SpecTokens: registration, password-reset requests and concurrent
\* consumption attempts of action tokens, under a running clock.
Issue ==
    \/ \E u \in Users, tokOk \in BOOLEAN : Register(u, "p1", tokOk)
    \/ \E u \in Users, tokOk \in BOOLEAN : SendPasswordResetLink(u, tokOk)

Activate ==
    \/ \E a \in AttSlots, u \in Users, plain \in 1..MaxTokens : ActivateLookup(a, u, plain)
    \/ \E a \in AttSlots : ActivateWrite(a)
    \/ \E a \in AttSlots, dbOk \in BOOLEAN : ActivateDelete(a, dbOk)

Reset ==
    \/ \E a \in AttSlots, u \in Users, plain \in 1..MaxTokens, pw \in Passwords :
          ResetLookup(a, u, plain, pw)
    \/ \E a \in AttSlots, dbOk \in BOOLEAN : ResetWrite(a, dbOk)

NextTokens ==
    \/ Issue
    \/ Activate
    \/ Reset
    \/ Tick(VerificationTTL)

SpecTokens == Init /\ [][NextTokens]_vars

\* SpecListing: two uploads, visibility changes and soft deletes, and the
\* public and per-user listings computed in between.
Pages == 0..2          \* page 0 fails validation
PageSizes == 1..2

ListingUpload ==
    \/ \E u \in Users, c \in {"txt", "jpg"}, how \in {"ok", "error"} :
          nUuid < MaxUploads /\ UploadSave(1, u, c, how, TRUE)
    \/ UploadLookup(1, TRUE, TRUE)
    \/ \E dbOk \in BOOLEAN : UploadInsert(1, "a", dbOk, FALSE, TRUE)

RequestListPublic ==
    \E page \in Pages, size \in PageSizes, dbOk \in BOOLEAN :
        ListPublicFilesRequest(page, size, dbOk)

RequestListMine ==
    \E c \in Users, page \in Pages, size \in PageSizes, dbOk \in BOOLEAN :
        ListMyFilesRequest(c, page, size, dbOk)

\* the mutations ignore the caller, so one caller stands for all
ListingSetVisibility ==
    \E f \in FileIds, v \in Versions, vis \in Visibilities :
        SetVisibilityRequest("u1", f, v, vis)

ListingSoftDelete ==
    \E f \in FileIds, v \in Versions : SoftDeleteRequest("u1", f, v)

NextListing ==
    \/ ListingUpload
    \/ ListingSetVisibility
    \/ ListingSoftDelete
    \/ RequestListPublic
    \/ RequestListMine

SpecListing == Init /\ [][NextListing]_vars

\* SpecAuth: signup, logins, refresh exchanges, revocation and expiry of
\* refresh tokens, under a clock that steps by the refresh-token lifetime.
\* a token re-signed by the server key over other claims
Resign(tok, claims) == [tok EXCEPT !.claims = claims, !.sig = Sign(JwtSecret, tok.alg, claims)]
WithClaim(claims, key, v) == [claims EXCEPT ![key] = v]
WithoutClaim(claims, key) == [x \in (DOMAIN claims) \ {key} |-> claims[x]]
StringClaims == {"sub", "first_name", "last_name", "email", "role", "is_verified"}

\* validly signed tokens whose claims are defective in one place
DefectiveClaims(tok) ==
    {Resign(tok, WithoutClaim(tok.claims, key)) : key \in StringClaims}
        \cup {Resign(tok, WithClaim(tok.claims, key, Str(""))) : key \in StringClaims}
        \cup {Resign(tok, WithClaim(tok.claims, key, Num(1))) : key \in StringClaims}
        \cup {Resign(tok, WithClaim(tok.claims, "sub", Str("not-a-uuid"))),
               Resign(tok, WithClaim(tok.claims, "is_verified", Str("yes")))}

\* tokens that fail before the claims are read: a tampered payload under the
\* old signature, a signature under another key, and methods that are not HMAC
Forgeries(tok) ==
    {[tok EXCEPT !.claims = WithClaim(tok.claims, "role", Str("admin"))],
     [tok EXCEPT !.sig = Sign("other-secret", tok.alg, tok.claims)],
     [tok EXCEPT !.alg = "RS256", !.sig = Sign("rsa-key", "RS256", tok.claims)],
     [tok EXCEPT !.alg = "none", !.sig = <<>>]}

\* the tokens examined: the token the client holds, variations of it, and a
\* string that is no JWT
TokenInputs ==
    IF held = NoHeld THEN {GarbageToken}
    ELSE {held.token, GarbageToken, Resign([held.token EXCEPT !.alg = "HS512"], held.token.claims)}
            \cup Forgeries(held.token) \cup DefectiveClaims(held.token)

\* one account signs up; logins also name an address that has no account
AuthSignup == \E tokOk \in BOOLEAN : Register("u1", "p1", tokOk)

AuthActivate ==
    \/ \E plain \in 1..MaxTokens : ActivateLookup(1, "u1", plain)
    \/ ActivateWrite(1)
    \/ \E dbOk \in BOOLEAN : ActivateDelete(1, dbOk)

AuthLogin == \E u \in Users, pw \in Passwords, dbOk \in BOOLEAN : LoginWithRefresh(u, pw, dbOk)

RefreshInputs == 0..MaxLogins       \* 0: a string that was never issued
DbOutcomes == {"ok", "token error", "user error"}

AuthRefresh == \E tok \in RefreshInputs, db \in DbOutcomes : RefreshAccessToken(tok, db)

AuthRevoke == \E tok \in 1..MaxLogins : RevokeRefreshToken(tok)

NextAuth ==
    \/ AuthSignup
    \/ AuthLogin
    \/ AuthRefresh
    \/ AuthRevoke
    \/ DeleteExpiredRefreshTokens
    \/ Tick(RefreshTTL)

SpecAuth == Init /\ [][NextAuth]_vars

\* SpecJwt: signup and activation, logins, refresh exchanges, and validation
\* of the access token in hand, under a clock that steps by the access-token
\* lifetime.
JwtValidate == \E tok \in {held.token, GarbageToken} : ValidateRequest(tok)

NextJwt ==
    \/ AuthSignup
    \/ AuthActivate
    \/ AuthLogin
    \/ AuthRefresh
    \/ JwtValidate
    \/ Tick(AccessTTL)

SpecJwt == Init /\ [][NextJwt]_vars

\* SpecValidate: signups, logins, and validation of well-formed, forged and
\* defective access tokens, under a clock that steps by the access-token
\* lifetime.
ValidateSignup == \E u \in Users, tokOk \in BOOLEAN : Register(u, "p1", tokOk)

ValidateAny == \E tok \in TokenInputs : ValidateRequest(tok)

NextValidate ==
    \/ ValidateSignup
    \/ AuthLogin
    \/ ValidateAny
    \/ Tick(AccessTTL)

SpecValidate == Init /\ [][NextValidate]_vars

\* SpecGate: signup and activation, a login, an API key, and requests with
\* every shape of Authorization header to a route behind AuthMiddleware alone.
\* SpecGuard: the same with the requests sent to a route that is behind
\* RequireActivatedUser as well.
\* the headers sent: none; "<scheme> <credential>" under four schemes; a
\* scheme alone; three fields; two spaces; a credential alone
HeaderCases == 1..9
HeaderOf(c, cred) ==
    CASE c = 1 -> <<>>
      [] c = 2 -> <<Word("Bearer"), Space, cred>>
      [] c = 3 -> <<Word("ApiKey"), Space, cred>>
      [] c = 4 -> <<Word("Basic"), Space, cred>>
      [] c = 5 -> <<Word("bearer"), Space, cred>>
      [] c = 6 -> <<Word("Bearer")>>
      [] c = 7 -> <<Word("Bearer"), Space, cred, Space, Word("x")>>
      [] c = 8 -> <<Word("ApiKey"), Space, Space, cred>>
      [] c = 9 -> <<cred>>

\* the key strings presented: every pairing of a prefix with a secret, and
\* strings with no "_", with a second "_", with nothing before the "_"
KeyInputs ==
    {<<ApiKeyPrefix, r, "_", SecretTexts[i]>> : r \in RandomTexts, i \in 1..MaxSecrets}
        \cup {<<ApiKeyPrefix, "r1">>, <<ApiKeyPrefix, "r1", "_", "s1", "_", "s2">>,
               <<"_", "s1">>}

KeyExpiries == {NoTime, now, now + 1}

MintOne ==
    \/ nSecret < GateMints /\ CreateAPIKey(1, "u1", NoTime)
    \/ \E text \in RandomTexts : GenerateAPIKeyCheck(1, text, TRUE)
    \/ GenerateAPIKeyInsert(1, TRUE)

GateLogin == nRefresh < GateLogins /\ AuthLogin

\* the credentials presented at the gate: the access token and the API key
\* the client was handed, a string that is no JWT, and a key with a wrong secret
GateTokens == {held.token, GarbageToken}
GateKeys == {gen[1].key, <<ApiKeyPrefix, "r1", "_", "s3">>}

GateOpen ==
    \/ \E c \in HeaderCases, tok \in GateTokens : OpenRoute(HeaderOf(c, Jwt(tok)), TRUE)
    \/ \E c \in HeaderCases, text \in GateKeys : OpenRoute(HeaderOf(c, Key(text)), TRUE)
    \/ OpenRoute(HeaderOf(3, Key(gen[1].key)), FALSE)

GateGuarded ==
    \/ \E c \in HeaderCases, tok \in GateTokens : GuardedRoute(HeaderOf(c, Jwt(tok)), TRUE)
    \/ \E c \in HeaderCases, text \in GateKeys : GuardedRoute(HeaderOf(c, Key(text)), TRUE)
    \/ GuardedRoute(HeaderOf(3, Key(gen[1].key)), FALSE)

NextGate ==
    \/ AuthSignup
    \/ AuthActivate
    \/ GateLogin
    \/ MintOne
    \/ GateOpen
    \/ Tick(AccessTTL)

SpecGate == Init /\ [][NextGate]_vars

NextGuard ==
    \/ AuthSignup
    \/ AuthActivate
    \/ GateLogin
    \/ MintOne
    \/ GateGuarded
    \/ Tick(AccessTTL)

SpecGuard == Init /\ [][NextGuard]_vars

\* SpecKeys: signup and activation, one API key at a time, and validation
\* of well-formed and malformed key strings, under a clock that steps by a
\* quarter hour.
KeysMint ==
    \/ \E e \in KeyExpiries : nSecret < KeysMints /\ CreateAPIKey(1, "u1", e)
    \/ \E text \in RandomTexts : GenerateAPIKeyCheck(1, text, TRUE)
    \/ GenerateAPIKeyInsert(1, TRUE)

KeysValidate == \E text \in KeyInputs, dbOk \in BOOLEAN : ValidateKeyRequest(text, dbOk)

NextKeys ==
    \/ AuthSignup
    \/ AuthActivate
    \/ KeysMint
    \/ KeysValidate
    \/ Tick(AccessTTL)

SpecKeys == Init /\ [][NextKeys]_vars

\* SpecMint: one verified account mints API keys from two requests at once.
MintStart == \E g \in GenSlots : CreateAPIKey(g, "u1", NoTime)
MintCheck ==
    \E g \in GenSlots, text \in RandomTexts, dbOk \in BOOLEAN : GenerateAPIKeyCheck(g, text, dbOk)
MintInsert == \E g \in GenSlots, dbOk \in BOOLEAN : GenerateAPIKeyInsert(g, dbOk)

NextMint ==
    \/ AuthSignup
    \/ AuthActivate
    \/ MintStart
    \/ MintCheck
    \/ MintInsert

SpecMint == Init /\ [][NextMint]_vars

\* ------------------------------------------------------- claims under Spec
\* C1: of the SetVisibility requests that carry the same version of a file,
\* exactly one succeeds: a request that arrives with version v right after
\* another one moved the row from v to v + 1 is answered Conflict and leaves
\* the row unchanged.
C1_RaceLoserGetsConflict ==
    [][\A c \in Users, f \in FileIds, v \in Versions, vis \in Visibilities :
          (/\ last.op = "SetVisibility" /\ last.file = f /\ last.res = "ok"
           /\ f \in Rows /\ files[f].version = v + 1
           /\ SetVisibilityRequest(c, f, v, vis))
          => (last'.res = "Conflict" /\ files' = files)]_vars

\* C2: a SetVisibility, Rename or SoftDelete request whose version is not the
\* row's current version is answered Conflict (409) and leaves the row
\* unchanged.
C2_StaleVersionIsConflict ==
    [][\A c \in Users, f \in FileIds, v \in Versions :
          (/\ f \in Rows /\ files[f].version # v
           /\ \/ \E vis \in Visibilities : SetVisibilityRequest(c, f, v, vis)
              \/ \E name \in Names : RenameRequest(c, f, v, name)
              \/ SoftDeleteRequest(c, f, v))
          => (last'.res = "Conflict" /\ files' = files)]_vars

\* C7: once a SoftDelete request for a file has been answered with success,
\* GetMetadata and Download of that file answer NotFound for every caller.
C7_DeletedReadsNotFound ==
    [][\A c \in Users, f \in FileIds, v \in Versions :
          (f \in Rows /\ SoftDeleteRequest(c, f, v) /\ last'.res = "ok")
          => /\ \A d \in Users : (GetFileMetadataRes(d, f))' = "NotFound"
             /\ \A d \in Callers : (DownloadFileRes(d, f))' = "NotFound"]_vars

\* C9: a SetVisibility, Rename or SoftDelete request changes a file row only
\* when the caller is the owner of the file.
C9_OnlyOwnerMutates ==
    [][\A c \in Users, f \in FileIds, v \in Versions :
          (/\ f \in Rows /\ files[f].user_id # c
           /\ \/ \E vis \in Visibilities : SetVisibilityRequest(c, f, v, vis)
              \/ \E name \in Names : RenameRequest(c, f, v, name)
              \/ SoftDeleteRequest(c, f, v))
          => files' = files]_vars

\* C10: a Download of a live private file by anyone but its owner (another
\* user or the anonymous caller) is answered Forbidden, content is streamed
\* only to the owner or from a public file, and a live public file is streamed
\* to every caller.
C10_DownloadAccess ==
    [][\A c \in Callers, f \in FileIds :
          (DownloadRequest(c, f) /\ f \in Rows /\ ~files[f].is_deleted)
          => /\ (files[f].visibility = "private" /\ c # files[f].user_id)
                    => last'.res = "Forbidden"
             /\ last'.res = "Stream"
                    => (files[f].visibility = "public" \/ c = files[f].user_id)
             /\ files[f].visibility = "public" => last'.res = "Stream"]_vars

\* a registered user other than the owner has just been refused a private file
C10_Witness ==
    /\ last.op = "Download" /\ last.res = "Forbidden"
    /\ last.caller \in Users
    /\ last.file \in Rows
    /\ files[last.file].visibility = "private"
    /\ files[last.file].user_id # last.caller

\* ------------------------------------------------- claims under SpecUpload
\* C3: in every reachable state an owner holds at most one live row per
\* checksum, also when uploads of the same bytes run concurrently.
C3_OneLiveRowPerChecksum ==
    \A f \in Rows, g \in Rows :
        (/\ ~files[f].is_deleted /\ ~files[g].is_deleted
         /\ files[f].user_id = files[g].user_id
         /\ files[f].checksum = files[g].checksum)
        => f = g

\* every live row references an object that exists in the store
LiveRowsHaveObjects == \A f \in Rows : ~files[f].is_deleted => StoreHas(files[f].storage_key)

\* an UploadFile call that returns in this step: an error return has created
\* no row and, when cleaned holds, left no object under the key the attempt
\* wrote; a successful return has inserted a row whose object exists
UploadReturns(p, key, cleaned) ==
    upl'[p].pc = "done"
        => IF upl'[p].res = "ok"
           THEN /\ \E f \in Rows' \ Rows : files'[f].storage_key = key
                /\ key \in DOMAIN store'
           ELSE /\ files' = files
                /\ cleaned => key \notin DOMAIN store'

\* C4: if UploadFile returns an error it has created no row and
\* the object it wrote is absent from the store; if it returns a row, the
\* object under its storage_key exists; so every live row references an
\* existing object.
C4_UploadAllOrNothing ==
    [][/\ \A p \in Slots, delOk \in BOOLEAN :
            /\ \A u \in Users, c \in Contents, how \in SaveOutcomes :
                  UploadSave(p, u, c, how, delOk)
                      => UploadReturns(p, StorageKeyOf(u, nUuid + 1), TRUE)
            /\ \A dbOk \in BOOLEAN :
                  UploadLookup(p, dbOk, delOk) => UploadReturns(p, upl[p].key, TRUE)
            /\ \A dbOk \in BOOLEAN, enqOk \in BOOLEAN :
                  UploadInsert(p, "a", dbOk, enqOk, delOk)
                      => UploadReturns(p, upl[p].key, TRUE)
       /\ LiveRowsHaveObjects']_vars

\* the objects whose bytes are a complete copy of c
ObjectsOf(st, c) == {k \in DOMAIN st : st[k] = Full(c)}

\* the upload in slot p repeats bytes whose only copy is a live row of the
\* same owner: one row carries the checksum, and the store holds that row's
\* object and the object of this attempt
IsRepeatUpload(p) ==
    /\ upl[p].pc = "saved"
    /\ \E f \in Rows :
          /\ files[f].user_id = upl[p].user
          /\ ~files[f].is_deleted
          /\ {g \in Rows : files[g].checksum = Checksum(upl[p].content)} = {f}
          /\ ObjectsOf(store, upl[p].content) = {files[f].storage_key, upl[p].key}

\* C5 (as stated): uploading the same bytes again while the first upload is
\* live fails with DuplicateUpload, creates no row, and leaves exactly one
\* object for that checksum in the store.
C5_RepeatUploadRejected ==
    [][\A p \in Slots, dbOk \in BOOLEAN, delOk \in BOOLEAN :
          (IsRepeatUpload(p) /\ UploadLookup(p, dbOk, delOk))
          => /\ upl'[p].pc = "done" /\ upl'[p].res = "duplicate"
             /\ files' = files
             /\ Cardinality(ObjectsOf(store', upl[p].content)) = 1]_vars

\* ------------------------------------------- claims under SpecTidy, the reaper
\* C8: a cleanup run that selected a tombstoned file whose deleted_at had
\* passed leaves, when it ends with success, the row absent and neither the
\* storage object nor the thumbnail object of the file in the store.
C8_ReaperRemovesAll ==
    [][\A h \in HSlots :
          (cl[h].pc = "cleaned" /\ cl'[h].pc # "cleaned" /\ cl'[h].res = "ok")
             => \A r \in cl[h].sel :
                   /\ r.file_id \notin Rows'
                   /\ r.storage_key \notin DOMAIN store'
                   /\ r.file_id \in Rows
                         => \/ files[r.file_id].thumbnail_key = NoKey
                            \/ files[r.file_id].thumbnail_key \notin DOMAIN store'
      ]_vars

\* ------------------------------------------------- claims under SpecTokens
\* C6: an action token of either purpose is consumed at most once: when an
\* attempt has succeeded the token row is gone, and no other attempt with the
\* same plaintext has succeeded.
C6_TokenSingleUse ==
    \A a \in AttSlots :
        (att[a].pc = "done" /\ att[a].res = "ok")
        => /\ \A r \in tokens :
                 ~(r.token_hash = Sha256(att[a].plain) /\ r.user_id = att[a].user)
           /\ \A b \in AttSlots \ {a} :
                 ~(/\ att[b].pc = "done" /\ att[b].res = "ok"
                   /\ att[b].plain = att[a].plain /\ att[b].user = att[a].user)

\* ------------------------------------------- further claims under Spec
\* C11: GetMetadata of a live file answers with the row when the caller is
\* the owner or the file is public, and Forbidden when the caller is not the
\* owner and the file is private; for a missing or tombstoned file it answers
\* NotFound.
C11_MetadataAccess ==
    [][\A c \in Users, f \in FileIds :
          GetMetadataRequest(c, f)
          => IF GetFileInfo(f)
             THEN /\ (files[f].user_id = c \/ files[f].visibility = "public")
                        => last'.res = "ok"
                  /\ (files[f].user_id # c /\ files[f].visibility = "private")
                        => last'.res = "Forbidden"
             ELSE last'.res = "NotFound"]_vars

\* C20: a file's version is 0 when the row is inserted and never decreases;
\* a SetVisibility, Rename or SoftDelete request that is answered with success
\* raises it by exactly one, and one that fails leaves it unchanged.
C20_VersionCounts ==
    [][/\ \A f \in FileIds :
             /\ (f \notin Rows /\ f \in Rows') => files'[f].version = 0
             /\ (f \in Rows /\ f \in Rows') => files'[f].version >= files[f].version
       /\ \A c \in Users, f \in FileIds, v \in Versions :
             (/\ f \in Rows
              /\ \/ \E vis \in Visibilities : SetVisibilityRequest(c, f, v, vis)
                 \/ \E name \in Names : RenameRequest(c, f, v, name)
                 \/ SoftDeleteRequest(c, f, v))
             => files'[f].version = files[f].version + (IF last'.res = "ok" THEN 1 ELSE 0)]_vars

\* ------------------------------------------------ claims under SpecListing
Range(seq) == {seq[i] : i \in DOMAIN seq}

\* C12: a public listing never contains a private or a tombstoned file, and a
\* listing of the caller's files contains only live files the caller owns; so
\* a file that was made private or soft-deleted by the preceding request is
\* absent from the public listing computed next.
C12_ListingsFiltered ==
    [][/\ \A page \in Pages, size \in PageSizes, dbOk \in BOOLEAN :
            (last'.op = "ListPublic" /\ ListPublicFilesRequest(page, size, dbOk))
            => /\ \A f \in Range(last'.rows) :
                     /\ f \in Rows
                     /\ files[f].visibility = "public"
                     /\ ~files[f].is_deleted
               /\ (/\ last.op \in {"SetVisibility", "SoftDelete"}
                   /\ last.file \in Rows
                   /\ \/ files[last.file].visibility = "private"
                      \/ files[last.file].is_deleted)
                  => last.file \notin Range(last'.rows)
       /\ \A c \in Users, page \in Pages, size \in PageSizes, dbOk \in BOOLEAN :
            (last'.op = "ListMine" /\ ListMyFilesRequest(c, page, size, dbOk))
            => \A f \in Range(last'.rows) :
                  /\ f \in Rows
                  /\ files[f].user_id = c
                  /\ ~files[f].is_deleted]_vars

\* a public listing has returned one file while the other file is a public
\* file that was soft-deleted
C12_Witness ==
    /\ last.op = "ListPublic" /\ last.res = "ok"
    /\ Len(last.rows) = 1
    /\ \E f \in Rows \ Range(last.rows) :
          files[f].visibility = "public" /\ files[f].is_deleted

\* --------------------------------------------------- claims under SpecAuth
\* C13: RefreshAccessToken issues an access token only if the presented
\* refresh token exists, is not revoked and the clock is not after its
\* expires_at; an unknown or revoked token gives InvalidToken and an expired
\* one ExpiredToken (when the lookup itself does not fail); a refresh leaves
\* table refresh_tokens as it was, so a token that was exchanged can be
\* exchanged again.
C13_RefreshExchange ==
    [][\A tok \in RefreshInputs, db \in DbOutcomes :
          (auth'.op = "Refresh" /\ RefreshAccessToken(tok, db))
          => LET rows == {r \in refresh : r.token = tok}
             IN  /\ auth'.res = "ok"
                        => \E r \in rows : ~r.revoked /\ ~(now > r.expires_at)
                 /\ (rows = {} \/ \E r \in rows : r.revoked)
                        => auth'.res = "InvalidToken"
                 /\ (db # "token error" /\ \E r \in rows : ~r.revoked /\ now > r.expires_at)
                        => auth'.res = "ExpiredToken"
                 /\ auth'.res # "ok" => held' = held
                 /\ refresh' = refresh
                 /\ auth'.res = "ok" => (RefreshOutcome(tok, "ok", now))' = "ok"]_vars

\* the same refresh token has been exchanged twice in a row and is still in
\* the table, unrevoked
C13_Witness ==
    /\ auth.op = "Refresh" /\ auth.res = "ok"
    /\ held.n = 2
    /\ \E r \in refresh : r.token = held.refresh /\ ~r.revoked

\* ---------------------------------------------------- claims under SpecJwt
\* the access token a client holds validates at every time before its exp,
\* to the principal described by the users row at the time it was minted
HeldTokenValidates ==
    held # NoHeld
        => \A t \in now..(held.token.claims["exp"][2] - 1) :
              ValidateToken(held.token, t) = Validation("ok", held.principal)

\* C14: every access token returned by Login or by a Refresh passes
\* ValidateToken until its expiry, and the principal ValidateToken returns
\* carries the user's id, names, email, role and verification state as stored
\* when the token was minted; a Refresh after the activation of the user
\* yields an activated principal.
C14_IssuedTokensValidate ==
    [][/\ HeldTokenValidates'
       /\ \A u \in Users, pw \in Passwords, dbOk \in BOOLEAN :
             (auth'.op = "Login" /\ LoginWithRefresh(u, pw, dbOk) /\ auth'.res = "ok")
             => ValidateToken(held'.token, now) = Validation("ok", PrincipalOf(u, users[u]))
       /\ \A tok \in RefreshInputs, db \in DbOutcomes :
             (auth'.op = "Refresh" /\ RefreshAccessToken(tok, db) /\ auth'.res = "ok")
             => \A r \in GetRefreshToken(tok) :
                   /\ ValidateToken(held'.token, now)
                          = Validation("ok", PrincipalOf(r.user_id, users[r.user_id]))
                   /\ users[r.user_id].is_verified
                          => ValidateToken(held'.token, now).principal.IsActivated]_vars

\* a token minted by a Refresh after the activation has been validated to an
\* activated principal
C14_Witness ==
    /\ auth.op = "Validate" /\ auth.res = "ok"
    /\ held.n >= 1
    /\ auth.principal = held.principal
    /\ auth.principal.IsActivated
    /\ auth.principal.UserID \in UserRows

\* ----------------------------------------------- claims under SpecValidate
\* signed by the server key with an HMAC method
WellSigned(tok) ==
    tok.wire = "jwt" /\ tok.alg \in HmacAlgs /\ tok.sig = Sign(JwtSecret, tok.alg, tok.claims)
ExpPassed(tok, t) == "exp" \in DOMAIN tok.claims /\ tok.claims["exp"][2] <= t

\* C15: ValidateToken returns ExpiredToken for a correctly signed token whose
\* exp has passed, InvalidToken for a bad signature, a malformed string or a
\* signing method that is not HMAC, and InvalidClaims for a validly signed,
\* unexpired token with a missing, empty or unparsable sub, first_name,
\* last_name, email, role or is_verified; none of them yields a principal.
C15_RejectedTokens ==
    /\ \A tok \in TokenInputs :
          LET v == ValidateToken(tok, now)
          IN  /\ (WellSigned(tok) /\ ExpPassed(tok, now)) => v.res = "ExpiredToken"
              /\ ~WellSigned(tok) => v.res = "InvalidToken"
              /\ (/\ held # NoHeld /\ tok \in DefectiveClaims(held.token)
                  /\ ~ExpPassed(tok, now))
                    => v.res = "InvalidClaims"
              /\ v.res # "ok" => v.principal = NoPrincipal
    /\ (auth.op = "Validate" /\ auth.res # "ok") => auth.principal = NoPrincipal

\* an expired token that the server had issued was presented and refused
C15_Witness ==
    /\ auth.op = "Validate" /\ auth.res = "ExpiredToken"
    /\ held # NoHeld
    /\ held.token.claims["exp"][2] <= now

\* -------------------------------------------------- claims under SpecGuard
\* C16: the handler of a route behind RequireActivated runs only for a
\* principal that is not anonymous and is activated; an anonymous caller is
\* answered Unauthorized and an authenticated caller that is not activated
\* InactiveAccount, and in both cases the handler is not invoked.
C16_RequireActivated ==
    auth.op = "Guarded" =>
        /\ auth.next \in {0, 1}
        /\ auth.next = 1 =>
              /\ auth.principal.kind = "user"
              /\ auth.principal.IsActivated
              /\ auth.res = "ok"
        /\ auth.principal.kind = "anonymous" =>
              auth.res = "Unauthorized" /\ auth.next = 0
        /\ auth.principal.kind = "user" /\ ~auth.principal.IsActivated =>
              auth.res = "InactiveAccount" /\ auth.next = 0

\* witness of C16: an authenticated caller whose account is not activated was
\* turned away
C16_Witness ==
    /\ auth.op = "Guarded"
    /\ auth.principal.kind = "user"
    /\ ~auth.principal.IsActivated
    /\ auth.res = "InactiveAccount"

\* --------------------------------------------------- claims under SpecGate
SpaceCount(h) == Cardinality({i \in 1..Len(h) : h[i].kind = "space"})

\* what AuthMiddleware is to do with header h: the principal is anonymous and
\* next runs when there is no header; Unauthorized and no call of next when h
\* is not one scheme, one space and one credential, when the scheme is not
\* Bearer or ApiKey, or when the credential fails validation; else the
\* validated principal and one call of next
Expected(h, dbOk) ==
    IF Len(h) = 0 THEN Chain("ok", AnonymousUser, 1)
    ELSE IF SpaceCount(h) # 1 \/ Len(h) # 3 THEN Chain("Unauthorized", NoPrincipal, 0)
    ELSE IF h[1].v \notin {"Bearer", "ApiKey"} THEN Chain("Unauthorized", NoPrincipal, 0)
    ELSE LET v == IF h[1].v = "Bearer"
                  THEN ValidateToken(IF h[3].kind = "jwt" THEN h[3].v ELSE GarbageToken, now)
                  ELSE ValidateAPIKey(IF h[3].kind = "key" THEN h[3].v ELSE <<"eyJ.">>,
                                      dbOk, now)
         IN  IF v.res = "ok" THEN Chain("ok", v.principal, 1)
             ELSE Chain("Unauthorized", NoPrincipal, 0)

Answered(h, dbOk) ==
    LET e == Expected(h, dbOk)
        a == OpenAnswer(h, dbOk)
    IN  a.res = e.res /\ a.principal = e.principal /\ a.next = e.next

\* C17: AuthMiddleware attaches the anonymous principal and calls next when no
\* Authorization header is present; it answers Unauthorized and never calls
\* next when the header is not "<scheme> <credential>", when the scheme is
\* neither Bearer nor ApiKey, or when the credential fails validation;
\* otherwise it attaches the validated principal and calls next exactly once.
\* Stated of the answer to every header in every reachable state, and of the
\* answer last given.
C17_AuthMiddleware ==
    /\ \A c \in HeaderCases, dbOk \in BOOLEAN :
          /\ \A tok \in GateTokens : Answered(HeaderOf(c, Jwt(tok)), dbOk)
          /\ \A text \in GateKeys : Answered(HeaderOf(c, Key(text)), dbOk)
    /\ auth.op = "Open" =>
          \/ auth.next = 1 /\ auth.res = "ok" /\ auth.principal.kind \in {"anonymous", "user"}
          \/ auth.next = 0 /\ auth.res = "Unauthorized" /\ auth.principal = NoPrincipal

\* witness of C17: a request under the ApiKey scheme was let through with the
\* principal of the key's owner
C17_Witness ==
    /\ auth.op = "Open"
    /\ auth.next = 1
    /\ auth.principal.kind = "user"
    /\ held = NoHeld

\* --------------------------------------------------- claims under SpecKeys
\* key row k is named by the string s with its secret: the text before the
\* first "_" of s is k's prefix and the text after it hashes to k's key_hash
Presents(s, k) ==
    \E i \in 1..Len(s) :
        /\ s[i] = "_"
        /\ \A j \in 1..(i - 1) : s[j] # "_"
        /\ SubSeq(s, 1, i - 1) = k.prefix
        /\ HashPassword(SubSeq(s, i + 1, Len(s))) = k.key_hash

\* C18: ValidateAPIKey returns a principal only if the presented string splits
\* at its first "_" into the prefix of a stored key and a secret matching that
\* key's hash and the key's expires_at has not passed; an expired key is
\* rejected even when prefix and secret are correct; the principal returned is
\* the user who owns the key.  Stated of the answer to every key string in
\* every reachable state, and of the answer last given.
C18_ValidateAPIKey ==
    /\ \A text \in KeyInputs, dbOk \in BOOLEAN :
          LET v == ValidateAPIKey(text, dbOk, now)
          IN  /\ v.res = "ok" =>
                    \E k \in apiKeys :
                        /\ Presents(text, k)
                        /\ ~(now > k.expires_at)
                        /\ v.principal = PrincipalOf(k.user_id, users[k.user_id])
              /\ v.res # "ok" => v.principal = NoPrincipal
              /\ (\E k \in apiKeys : Presents(text, k) /\ now > k.expires_at) => v.res # "ok"
    /\ auth.op = "ValidateKey" /\ auth.res = "ok" =>
          \E k \in apiKeys : k.user_id = auth.principal.UserID

\* witness of C18: a key was refused as expired while a second key is stored
C18_Witness ==
    /\ auth.op = "ValidateKey"
    /\ auth.res = "api key has expired"
    /\ Cardinality(apiKeys) = 2
    /\ \E k \in apiKeys : ~(now > k.expires_at)

\* --------------------------------------------------- claims under SpecMint
\* C19: no two API-key rows share a prefix, also when keys are minted
\* concurrently; GenerateAPIKey tries at most 5 candidate prefixes, and when
\* the fifth is taken too it returns an error and stores no key.
C19_UniquePrefix ==
    /\ [](\A k1, k2 \in apiKeys : k1.prefix = k2.prefix => k1 = k2)
    /\ [](\A g \in GenSlots : gen[g].i < PrefixAttempts)
    /\ [][\A g \in GenSlots, text \in RandomTexts :
             /\ GenerateAPIKeyCheck(g, text, TRUE)
             /\ gen[g].i = PrefixAttempts - 1
             /\ CheckIfAPIKeyExists(<<ApiKeyPrefix, text>>) > 0
             => /\ gen'[g].pc = "done"
                /\ gen'[g].res = "no unique prefix"
                /\ gen'[g].key = <<>>
                /\ apiKeys' = apiKeys]_vars

\* witness of C19: a request gave up after five taken prefixes while another
\* request is minting
C19_Witness ==
    \E g, h \in GenSlots :
        /\ gen[g].res = "no unique prefix"
        /\ gen[h].pc = "check"
        /\ gen[h].i > 0

\* ------------------------------------- further claims under SpecLifecycle
\* C21: a live row whose thumbnail_key is set names a thumbnail object that is
\* in the store; a step that sets thumbnail_key sets it to the key of an
\* object that was saved before the step; a step in which the thumbnail job
\* fails (fetch, decode, encode, save or row update) changes no row.
C21_ThumbnailPresent ==
    /\ [](\A f \in Rows :
             (~files[f].is_deleted /\ files[f].thumbnail_key # NoKey)
                 => /\ StoreHas(files[f].thumbnail_key)
                    /\ store[files[f].thumbnail_key][1] = "thumb")
    /\ [][/\ \A f \in Rows :
                (f \in Rows' /\ files'[f].thumbnail_key # files[f].thumbnail_key)
                    => /\ StoreHas(files'[f].thumbnail_key)
                       /\ \E h \in HSlots :
                             tj[h].pc = "saved" /\ tj[h].thumb = files'[f].thumbnail_key
          /\ (\E t \in tasks : t \notin tasks' /\ FailTask(t) \in tasks') => files' = files]_vars

\* witness of C21: a live image row carries the key of a stored thumbnail
\* after an earlier attempt of the job had failed
C21_Witness ==
    \E f \in Rows :
        /\ ~files[f].is_deleted
        /\ files[f].thumbnail_key # NoKey
        /\ StoreHas(files[f].thumbnail_key)
        /\ \E t \in tasks : t.file = f /\ t.st = "completed" /\ t.retried > 0

\* ----------------------------------------------------------- SpecIngest
\* SpecIngest: uploads of every size through FileHandler.Upload, from two
\* requests at once.
IngestContents == Contents \cup {"tiny"}

IngestUpload ==
    \E p \in Slots, u \in Users, c \in IngestContents, how \in SaveOutcomes, delOk \in BOOLEAN :
        nUuid < MaxUploads /\ Upload(p, u, c, how, delOk)

IngestLookup == \E p \in Slots, dbOk \in BOOLEAN, delOk \in BOOLEAN : UploadLookup(p, dbOk, delOk)

IngestInsert ==
    \E p \in Slots, dbOk \in BOOLEAN, enqOk \in BOOLEAN, delOk \in BOOLEAN :
        UploadInsert(p, "a", dbOk, enqOk, delOk)

NextIngest ==
    \/ IngestUpload
    \/ IngestLookup
    \/ IngestInsert

SpecIngest == Init /\ [][NextIngest]_vars

\* C22: an upload of more than max_upload_size bytes fails with TooLarge, its
\* partly written object is deleted and no row is created; an upload of
\* exactly max_upload_size bytes is accepted.
C22_TooLarge ==
    [][\A p \in Slots, u \in Users, c \in IngestContents, how \in SaveOutcomes,
          delOk \in BOOLEAN :
          Upload(p, u, c, how, delOk) =>
              /\ SizeOf(c) > MaxUploadSize =>
                    /\ UploadStatus(upl'[p].res) = "TooLarge"
                    /\ ~StoreHas(StorageKeyOf(u, nUuid + 1))'
                    /\ files' = files
              /\ (SizeOf(c) = MaxUploadSize /\ how = "ok") => upl'[p].pc = "saved"]_vars

\* ------------------------------------------------------ claims (Spec), deletion
\* C23: a soft-delete request by the owner that carries the current version of
\* a live file, version 0 of a never-modified file included, is answered with
\* success and tombstones the row: is_deleted is set and deleted_at is the
\* time of the request plus the retention period.
C23_CurrentVersionDeletes ==
    [][\A c \in Users, f \in FileIds :
          (/\ f \in Rows
           /\ ~files[f].is_deleted
           /\ files[f].user_id = c
           /\ SoftDeleteRequest(c, f, files[f].version))
              => /\ last'.res = "ok"
                 /\ files'[f].is_deleted
                 /\ files'[f].deleted_at = now + Retention]_vars

\* ------------------------------------------------------------- SpecFrame
\* SpecFrame: the life of a file as in SpecLifecycle, with renames.
RenameAny ==
    \E c \in Users, f \in FileIds, v \in Versions, name \in Names :
        UpdateFileName(c, f, v, name) /\ UNCHANGED last

NextFrame ==
    \/ LifecycleUpload
    \/ Thumbnail
    \/ SetVisibilityAny
    \/ RenameAny
    \/ SoftDeleteAny
    \/ Cleanup
    \/ Reads
    \/ Tick(Retention)

SpecFrame == Init /\ [][NextFrame]_vars

\* the columns of a row that a step changed
RowColumns ==
    {"user_id", "filename", "storage_key", "mime_type", "size_bytes", "visibility",
     "thumbnail_key", "checksum", "is_deleted", "deleted_at", "version"}
Changed(f) == {k \in RowColumns : files'[f][k] # files[f][k]}

\* C24: no step changes the storage_key, user_id, checksum or size_bytes of a
\* row that stays in the table; a SetVisibility step changes at most
\* visibility and version, a Rename step at most filename and version, and a
\* SoftDelete step at most is_deleted, deleted_at and version, of the row it
\* addresses and of no other row (a step that leaves the table as it was
\* changes no column).
C24_Frame ==
    [][files' # files =>
       /\ \A f \in Rows \cap Rows' :
             Changed(f) \cap {"storage_key", "user_id", "checksum", "size_bytes"} = {}
       /\ \A c \in Users, f \in FileIds, v \in Versions :
             /\ (\E vis \in Visibilities : SetFileVisibility(c, f, v, vis))
                   => /\ Rows' = Rows
                      /\ \A g \in Rows : Changed(g) \subseteq
                            (IF g = f THEN {"visibility", "version"} ELSE {})
             /\ (\E name \in Names : UpdateFileName(c, f, v, name))
                   => /\ Rows' = Rows
                      /\ \A g \in Rows : Changed(g) \subseteq
                            (IF g = f THEN {"filename", "version"} ELSE {})
             /\ DeleteFile(c, f, v)
                   => /\ Rows' = Rows
                      /\ \A g \in Rows : Changed(g) \subseteq
                            (IF g = f THEN {"is_deleted", "deleted_at", "version"} ELSE {})
      ]_vars

\* a row that was renamed, made public and then soft-deleted, with its
\* thumbnail written
C24_Witness ==
    \E f \in Rows :
        /\ files[f].filename = "b"
        /\ files[f].visibility = "public"
        /\ files[f].is_deleted
        /\ files[f].version = MaxVersion
        /\ files[f].thumbnail_key # NoKey
        /\ files[f].storage_key = StorageKeyOf(files[f].user_id, 1)

\* C26: a SetVisibility, Rename or SoftDelete step, whatever file id and
\* version it carries, leaves every tombstoned row as it was; in particular
\* the deleted_at written by the first soft delete stays.
C26_TombstoneFrozen ==
    [][files' # files =>
       ((\E c \in Users, f \in FileIds, v \in Versions :
            \/ \E vis \in Visibilities : SetFileVisibility(c, f, v, vis)
            \/ \E name \in Names : UpdateFileName(c, f, v, name)
            \/ DeleteFile(c, f, v))
          => \A g \in Rows : files[g].is_deleted => g \in Rows' /\ files'[g] = files[g])
      ]_vars

\* ------------------------------------------------ claims (SpecLifecycle), reaper
\* C25: every row a step removes from the table is, at that step, tombstoned
\* with deleted_at earlier than the current time, so a row soft-deleted at t
\* (deleted_at = t + Retention) is not removed before t + Retention; and the
\* reaper's object deletion removes no object whose key is the storage key or
\* the thumbnail key of a live row.
C25_ReaperOnlyExpired ==
    [][/\ \A f \in Rows \ Rows' :
             /\ files[f].is_deleted
             /\ files[f].deleted_at # NoTime
             /\ files[f].deleted_at < now
       /\ (\E h \in HSlots : cl[h].pc = "selected" /\ cl'[h].pc = "cleaned")
             => \A k \in (DOMAIN store) \ (DOMAIN store'), g \in Rows :
                   ~files[g].is_deleted
                       => k # files[g].storage_key /\ k # files[g].thumbnail_key
      ]_vars

\* ------------------------------------------------ claims (SpecTokens), writes
\* the user's version moved since the lookup of attempt a
Stale(a) ==
    /\ att[a].pc = "found"
    /\ att[a].user \in UserRows
    /\ users[att[a].user].version # att[a].version

\* C27: when the user's version changed between the token lookup and the
\* write, ActivateUser and VerifyPasswordReset alike return EditConflict and
\* leave the users table and the token rows as they were; and a verification
\* whose write succeeds raises the user's version by exactly one.
C27_EditConflict ==
    [][att' # att =>
       \A a \in AttSlots :
          /\ (Stale(a) /\ (ActivateWrite(a) \/ ResetWrite(a, TRUE)))
                => /\ att'[a].res = "EditConflict"
                   /\ users' = users
                   /\ tokens' = tokens
          /\ (~Stale(a) /\ ActivateWrite(a))
                => /\ users'[att[a].user].is_verified
                   /\ users'[att[a].user].version = users[att[a].user].version + 1
      ]_vars

\* Login's credential test: GetUserByEmail finds the row and VerifyPassword
\* accepts the password against the stored hash
LoginAccepts(t, u, pw) == u \in DOMAIN t /\ t[u].password_hash = HashPassword(pw)

\* C28: when VerifyPasswordReset reports success for user U and new password
\* p, U's password_hash is a hash of p: a Login of U with p is accepted and a
\* Login with any other password is refused.
C28_ResetReplacesPassword ==
    [][att' # att =>
       \A a \in AttSlots :
          (att[a].pc = "found" /\ att[a].op = "reset" /\ att'[a].res = "ok")
             => /\ users'[att[a].user].password_hash = HashPassword(att[a].pw)
                /\ LoginAccepts(users', att[a].user, att[a].pw)
                /\ \A q \in Passwords \ {att[a].pw} : ~LoginAccepts(users', att[a].user, q)
      ]_vars

\* the purpose each operation asks for
PurposeOf(op) == IF op = "activate" THEN "email_verification" ELSE "password_reset"

\* C29: an attempt passes its lookup only when a token row carries the
\* SHA-256 digest of the presented plaintext, the purpose of the operation
\* and the given user, and expires after the current time; a user row is
\* changed, and a token row deleted, only by an attempt that passed its lookup
\* for that user, and the row deleted carries the digest that attempt
\* presented. An attempt with a token of the other purpose, of another user or
\* past its expiry ends at the lookup with NotFound.
C29_ConsumeOnlyMatching ==
    [][/\ \A a \in AttSlots :
             (att'[a] # att[a] /\ att[a].pc \in {"idle", "done"})
                => IF \E r \in tokens : /\ r.token_hash = Sha256(att'[a].plain)
                                        /\ r.purpose = PurposeOf(att'[a].op)
                                        /\ r.user_id = att'[a].user
                                        /\ r.expires_at > now
                   THEN att'[a].pc = "found"
                   ELSE att'[a].pc = "done" /\ att'[a].res = "NotFound"
       /\ \A u \in UserRows :
             users'[u] # users[u]
                => \E a \in AttSlots : att[a].pc = "found" /\ att[a].user = u
       /\ \A r \in tokens \ tokens' :
             \E a \in AttSlots : /\ att[a].pc = "written"
                                 /\ att[a].user = r.user_id
                                 /\ Sha256(att[a].plain) = r.token_hash
                                 /\ r.purpose = PurposeOf(att[a].op)
      ]_vars

\* one token was consumed by a verification, and a reset that presented a
\* live verification token of its user ended with NotFound
C29_Witness ==
    \E a, b \in AttSlots :
        /\ att[a].pc = "done" /\ att[a].op = "activate" /\ att[a].res = "ok"
        /\ users[att[a].user].is_verified
        /\ ~\E r \in tokens : r.user_id = att[a].user /\ r.token_hash = Sha256(att[a].plain)
        /\ att[b].pc = "done" /\ att[b].op = "reset" /\ att[b].res = "NotFound"
        /\ \E r \in tokens : /\ r.user_id = att[b].user
                             /\ r.token_hash = Sha256(att[b].plain)
                             /\ r.purpose = "email_verification"
                             /\ r.expires_at > now

\* ------------------------------------------ claims (SpecLifecycle), object errors
\* C32: whatever the object deletion of a cleanup run failed on, the run goes
\* on to the hard delete, and a hard delete that succeeds removes exactly the
\* rows the run selected, all in one step.
C32_RowsDeletedRegardless ==
    [][cl' # cl =>
       \A h \in HSlots :
          cl'[h] # cl[h] =>
             /\ cl[h].pc = "selected" => cl'[h].pc = "cleaned" /\ files' = files
             /\ (cl[h].pc = "cleaned" /\ cl'[h].res = "ok")
                   => /\ cl'[h].pc = "idle"
                      /\ Rows' = Rows \ {r.file_id : r \in cl[h].sel}
                      /\ \A f \in Rows' : files'[f] = files[f]
      ]_vars

\* a run whose object deletion failed has removed its row and left an object
C32_Witness ==
    \E h \in HSlots :
        /\ cl[h].pc = "idle"
        /\ cl[h].res = "ok"
        /\ cl[h].failed > 0
        /\ cl[h].sel # {}
        /\ \A r \in cl[h].sel : r.file_id \notin Rows
        /\ \E r \in cl[h].sel : StoreHas(r.storage_key)

\* --------------------------------------------------------------- SpecTidy
\* SpecTidy: the life of a file as in SpecLifecycle, over a store whose
\* Delete always succeeds.
TidyUpload ==
    \/ \E u \in Users, c \in Contents, how \in SaveOutcomes :
          nUuid < MaxRequestFiles /\ UploadSave(1, u, c, how, TRUE)
    \/ UploadLookup(1, TRUE, TRUE)
    \/ \E dbOk \in BOOLEAN, enqOk \in BOOLEAN : UploadInsert(1, "a", dbOk, enqOk, TRUE)

TidyThumbnail ==
    \/ \E t \in tasks : TakeTask(t)
    \/ \E h \in HSlots, how \in {"ok", "decode"} : ThumbnailGet(h, how)
    \/ \E h \in HSlots, how \in {"ok", "save", "partial"} : ThumbnailSave(h, how)
    \/ \E h \in HSlots, dbOk \in BOOLEAN : ThumbnailUpdate(h, dbOk, TRUE)

TidyCleanup ==
    \/ \E S \in SUBSET Rows : CleanupSelect(1, S)
    \/ CleanupObjects(1, {})
    \/ \E dbOk \in BOOLEAN : CleanupRows(1, dbOk)

NextTidy ==
    \/ TidyUpload
    \/ TidyThumbnail
    \/ SetVisibilityAny
    \/ SoftDeleteAny
    \/ TidyCleanup
    \/ Tick(Retention)

SpecTidy == Init /\ [][NextTidy]_vars

\* no UploadFile, GenerateThumbnail or CleanupExpiredSoftDeleted call is
\* running, and no thumbnail task waits for a run
Quiet ==
    /\ \A p \in Slots : upl[p].pc \in {"idle", "done"}
    /\ \A h \in HSlots : tj[h].pc = "idle" /\ cl[h].pc = "idle"
    /\ \A t \in tasks : t.st \in {"completed", "dead"}

\* C33: when nothing is in progress, every object of the store is the
\* storage_key or the thumbnail_key of some row of files.
C33_NoOrphans ==
    Quiet => \A k \in DOMAIN store :
                \E f \in Rows : files[f].storage_key = k \/ files[f].thumbnail_key = k

\* ------------------------------------------------------------- SpecRevoke
\* update api_keys set is_revoked = true, revoked_at = now() where
\* api_key_id = $1  (:exec); a row is named here by its unique prefix
RevokeApiKey(k) ==
    /\ k \in apiKeys
    /\ apiKeys' = (apiKeys \ {k}) \cup {[k EXCEPT !.is_revoked = TRUE]}
    /\ UNCHANGED <<fileVars, now, last, credVars, app, refresh, nRefresh, held, auth, gen, nSecret>>

\* SpecRevoke: signup and activation, one API key, its revocation, and
\* validation of key strings, under a running clock.
KeysRevoke == \E k \in apiKeys : RevokeApiKey(k)

NextRevoke ==
    \/ AuthSignup
    \/ AuthActivate
    \/ MintOne
    \/ KeysRevoke
    \/ KeysValidate
    \/ Tick(AccessTTL)

SpecRevoke == Init /\ [][NextRevoke]_vars

\* C34: in every state, a key string that names a key row whose is_revoked
\* is set, with the right secret and before its expiry or not, is refused by
\* ValidateAPIKey.
C34_RevokedRejected ==
    \A text \in KeyInputs :
        (\E k \in apiKeys : Presents(text, k) /\ k.is_revoked)
            => ValidateAPIKey(text, TRUE, now).res # "ok"

\* ---------------------------------------------- claims (SpecTokens), signup
\* C35: a Register call that returns an error, because the email is taken or
\* because the token insert failed, leaves users and action_tokens as they
\* were; one that succeeds leaves a new unverified user with exactly one
\* unexpired email_verification token.
C35_RegisterAllOrNothing ==
    [][(users' # users \/ tokens' # tokens) =>
       \A u \in Users, tokOk \in BOOLEAN :
          Register(u, "p1", tokOk)
             => IF u \in UserRows \/ ~tokOk
                THEN users' = users /\ tokens' = tokens
                ELSE /\ u \in DOMAIN users'
                     /\ ~users'[u].is_verified
                     /\ Cardinality({r \in tokens' : /\ r.user_id = u
                                                     /\ r.purpose = "email_verification"
                                                     /\ r.expires_at > now}) = 1
      ]_vars

\* ------------------------------------------------ serve and detached tasks
\* the goroutine is scheduled and calls fn(logger)
GoRun(i) ==
    /\ app.bg[i] = "added"
    /\ app' = [app EXCEPT !.bg[i] = "running"]
    /\ UNCHANGED <<fileVars, now, last, credVars, refresh, nRefresh, held, auth, apiKeys,
                   gen, nSecret>>

\* fn returns or panics; the deferred recover catches the panic and logs it
GoReturn(i, panics) ==
    /\ app.bg[i] = "running"
    /\ app' = [app EXCEPT !.bg[i] = "returning",
                          !.logged = IF panics THEN app.logged + 1 ELSE app.logged]
    /\ UNCHANGED <<fileVars, now, last, credVars, refresh, nRefresh, held, auth, apiKeys,
                   gen, nSecret>>

\* the deferred wg.Done, registered first and so run last
GoDone(i) ==
    /\ app.bg[i] = "returning"
    /\ app' = [app EXCEPT !.bg[i] = "ended", !.wg = app.wg - 1]
    /\ UNCHANGED <<fileVars, now, last, credVars, refresh, nRefresh, held, auth, apiKeys,
                   gen, nSecret>>

\* a request handler can run until the HTTP server has closed every connection
Requests == app.http # "down"

\* serve: case err := <-shutdownError: return err
ListenFails ==
    /\ app.pc = "serving"
    /\ app' = [app EXCEPT !.pc = "returned", !.res = "listen error", !.http = "down"]
    /\ UNCHANGED <<fileVars, now, last, credVars, refresh, nRefresh, held, auth, apiKeys,
                   gen, nSecret>>

\* SIGINT or SIGTERM is delivered to the process: to the quit channel of
\* serve (signal.Notify) and to the task server, whose Run listens for the
\* same signals
Signal ==
    /\ app.pc = "serving"
    /\ ~app.signalled
    /\ app' = [app EXCEPT !.signalled = TRUE]
    /\ UNCHANGED <<fileVars, now, last, credVars, refresh, nRefresh, held, auth, apiKeys,
                   gen, nSecret>>

\* serve: case <-quit
Quit ==
    /\ app.pc = "serving"
    /\ app.signalled
    /\ app' = [app EXCEPT !.pc = "shutdown"]
    /\ UNCHANGED <<fileVars, now, last, credVars, refresh, nRefresh, held, auth, apiKeys,
                   gen, nSecret>>

\* RedisTaskProcessor.Start: p.server.Run(mux) returns after the signal,
\* having shut the task server down, whatever serve has reached by then
RunSignalled ==
    /\ app.signalled
    /\ app.processor = "running"
    /\ app' = [app EXCEPT !.processor = "stopped"]
    /\ tasks' = IF app.processor = "running" THEN Requeue(tasks) ELSE tasks
    /\ UNCHANGED <<files, nFiles, store, nUuid, upl, tj, cl, now, last, credVars, refresh,
                   nRefresh, held, auth, apiKeys, gen, nSecret>>

\* serve: srv.Shutdown(ctx) under the 10-second deadline.  inTime: every
\* connection went idle before the deadline; otherwise the context error is
\* returned while handlers are still running, and serve returns it wrapped
HttpShutdown(inTime) ==
    /\ app.pc = "shutdown"
    /\ app' = IF inTime
              THEN [app EXCEPT !.pc = "processor", !.http = "down"]
              ELSE [app EXCEPT !.pc = "returned", !.res = "shutdown error",
                               !.http = "closing"]
    /\ UNCHANGED <<fileVars, now, last, credVars, refresh, nRefresh, held, auth, apiKeys,
                   gen, nSecret>>

\* serve: taskProcessor.Shutdown(), which finds the task server running or
\* already shut down by Run
ProcessorShutdown ==
    /\ app.pc = "processor"
    /\ app' = [app EXCEPT !.pc = "waiting", !.processor = "stopped"]
    /\ tasks' = IF app.processor = "running" THEN Requeue(tasks) ELSE tasks
    /\ UNCHANGED <<files, nFiles, store, nUuid, upl, tj, cl, now, last, credVars, refresh,
                   nRefresh, held, auth, apiKeys, gen, nSecret>>

\* serve: app.wg.Wait() returns when the counter is zero, then return nil
WaitReturns ==
    /\ app.pc = "waiting"
    /\ app.wg = 0
    /\ app' = [app EXCEPT !.pc = "returned", !.res = "nil"]
    /\ UNCHANGED <<fileVars, now, last, credVars, refresh, nRefresh, held, auth, apiKeys,
                   gen, nSecret>>

\* SpecServe: a running server with one user and one API key; validations
\* of the key start detached tasks, the goroutines run, return or panic,
\* and serve goes through its shutdown.
ServeSignup == Requests /\ AuthSignup
ServeActivate == Requests /\ AuthActivate
ServeMint == Requests /\ MintOne
ServeValidate ==
    Requests /\ \E text \in GateKeys, dbOk \in BOOLEAN : ValidateKeyRequest(text, dbOk)
ServeGoRun == \E i \in BgSlots : GoRun(i)
ServeGoReturn == \E i \in BgSlots, panics \in BOOLEAN : GoReturn(i, panics)
ServeGoDone == \E i \in BgSlots : GoDone(i)
ServeHttpShutdown == \E inTime \in BOOLEAN : HttpShutdown(inTime)

NextServe ==
    \/ ServeSignup
    \/ ServeActivate
    \/ ServeMint
    \/ ServeValidate
    \/ ServeGoRun
    \/ ServeGoReturn
    \/ ServeGoDone
    \/ ListenFails
    \/ Signal
    \/ Quit
    \/ RunSignalled
    \/ ServeHttpShutdown
    \/ ProcessorShutdown
    \/ WaitReturns

SpecServe == Init /\ [][NextServe]_vars

\* C36: once serve has taken a termination signal, it returns only with the
\* HTTP server stopped, the task processor shut down and no detached task
\* left in the wait group; the processor is shut down only after the HTTP
\* server has stopped, and serve starts to wait only after the processor
\* is shut down.
C36_GracefulShutdown ==
    [][app' # app =>
         /\ (app.pc \in {"shutdown", "processor", "waiting"} /\ app'.pc = "returned")
                => app'.http = "down" /\ app'.processor = "stopped" /\ app'.wg = 0
         /\ (app.processor = "running" /\ app'.processor = "stopped")
                => app.http = "down"
         /\ app'.pc = "waiting" => app'.processor = "stopped"]_vars

\* the detached tasks that have been added to the wait group and not ended
Pending(a) == {i \in BgSlots : a.bg[i] \in {"added", "running", "returning"}}

\* C37: the counter of the wait group is the number of detached tasks that
\* were started and have not ended: a task is counted from the step that
\* starts it, before its goroutine runs, and is taken off once, when it ends,
\* after a panic too; a panic is logged and changes nothing of serve; and
\* the validation that starts the update of last_used_at answers in the
\* step that starts it, before the goroutine has run.
C37_DetachedTracked ==
    /\ [](app.wg = Cardinality(Pending(app)))
    /\ [][app' # app =>
            \A i \in BgSlots :
               /\ (app.bg[i] = "idle" /\ app'.bg[i] # "idle")
                     => /\ app'.bg[i] = "added"
                        /\ app'.wg = app.wg + 1
                        /\ auth'.op = "ValidateKey" /\ auth'.res = "ok"
               /\ (app.bg[i] = "running" /\ app'.bg[i] # "running")
                     => /\ app'.bg[i] = "returning"
                        /\ app'.wg = app.wg
                        /\ app'.logged \in {app.logged, app.logged + 1}
                        /\ app'.pc = app.pc /\ app'.res = app.res
               /\ (app.bg[i] = "returning" /\ app'.bg[i] # "returning")
                     => app'.bg[i] = "ended" /\ app'.wg = app.wg - 1
               /\ app.bg[i] = "ended" => app'.bg[i] = "ended"]_vars

\* one task has panicked, was logged and has left the wait group, while a
\* second one was started by a validation that has already answered
C37_Witness ==
    /\ app.logged = 1
    /\ app.wg = 1
    /\ \E i, j \in BgSlots : app.bg[i] = "ended" /\ app.bg[j] = "added"
    /\ auth.op = "ValidateKey" /\ auth.res = "ok"

\* ------------------------------------------------------------- SpecSweep
\* a cleanup that also deletes the rows whose expires_at is now
RunAllCleanupsInclusive(t) ==
    LET r == {x \in refresh : ~(x.expires_at <= t)}
        a == {x \in tokens : ~(x.expires_at <= t)}
        k == {x \in apiKeys : ~(x.expires_at <= t)}
    IN  [refresh |-> r, tokens |-> a, apiKeys |-> k,
         counts |-> <<Cardinality(refresh \ r), Cardinality(tokens \ a),
                      Cardinality(apiKeys \ k)>>]

\* function run_all_cleanups() with now() = t: the three deletes and their
\* row counts, as one statement
RunAllCleanups(t) ==
    LET r == {x \in refresh : ~(x.expires_at < t)}
        a == {x \in tokens : ~(x.expires_at < t)}
        k == {x \in apiKeys : ~(x.expires_at < t)}
    IN  [refresh |-> r, tokens |-> a, apiKeys |-> k,
         counts |-> <<Cardinality(refresh \ r), Cardinality(tokens \ a),
                      Cardinality(apiKeys \ k)>>]

\* ---------------------------------------------------------- task processor
\* the three task types of package worker
TaskTypes == {"task:image:generate_thumbnail", "task:email:send", "task:system:cleaup_expired"}

\* the retry budget a task is enqueued with: asynq.MaxRetry(3) for thumbnails,
\* asynq.MaxRetry(5) for emails; the scheduler registers the cleanup task
\* without options
MaxRetryOf(type) ==
    IF type = "task:image:generate_thumbnail" THEN MaxRetry
    ELSE IF type = "task:email:send" THEN EmailMaxRetry
    ELSE DefaultMaxRetry

\* the payloads Enqueue puts on a queue: the JSON an email distributor
\* marshalled, bytes that do not decode, and the nil payload of the scheduled
\* cleanup task.  The thumbnail task with a decodable payload is the one
\* UploadInsert enqueues
PayloadsOf(type) ==
    IF type = "task:system:cleaup_expired" THEN {"nil"}
    ELSE IF type = "task:email:send" THEN {"json", "garbage"}
    ELSE {"garbage"}

\* a task of Enqueue as the broker holds it
WorkerTask(type, payload) ==
    [type |-> type, payload |-> payload, file |-> 0, key |-> NoKey,
     st |-> "pending", retried |-> 0, max |-> MaxRetryOf(type), attempts |-> 0,
     logged |-> FALSE, runs |-> {}]

\* an email distributor, the scheduler or another client of the broker
\* enqueues a task
Enqueue(type, payload) ==
    /\ ~\E t \in tasks : t.type = type /\ t.file = 0
    /\ payload \in PayloadsOf(type)
    /\ tasks' = tasks \cup {WorkerTask(type, payload)}
    /\ UNCHANGED <<files, nFiles, store, nUuid, upl, tj, cl, now, last, credVars, authVars>>

\* ProcessTaskSendEmail, the handler started for attempt a of the task: a
\* payload that json.Unmarshal rejects gives an error wrapping
\* asynq.SkipRetry; the error of mailer.Send is logged by the handler itself
\* and returned.  work: "ok", "failed" (mailer.Send returned an error); a
\* call can fail only when the handler reaches it.  The handler takes no
\* notice of its context, so it returns, and logs, also after its task has
\* been put back or has failed at its deadline
ProcessTaskSendEmail(t, a, work) ==
    /\ t \in tasks
    /\ t.type = "task:email:send"
    /\ a \in t.runs
    /\ work \in {"ok", "failed"}
    /\ t.payload # "json" => work = "ok"
    /\ tasks' = Filed((tasks \ {t}) \cup {[t EXCEPT !.runs = t.runs \ {a}]},
                      t.type, t.file, a,
                      IF t.payload # "json" THEN UnmarshalError
                      ELSE IF work = "ok" THEN "nil" ELSE "error",
                      work = "failed")
    /\ UNCHANGED <<files, nFiles, store, nUuid, upl, tj, cl, now, last, credVars, authVars>>

\* the end of ProcessTaskCleanupSystem: jobs.CleanUpExpired(ctx, p.conn) runs
\* run_all_cleanups(), its error is logged ("failed to cleanup tokens"), and
\* the handler returns nil
CleanupTokens(h, dbOk) ==
    /\ cl[h].pc = "tokens"
    /\ CleanupCtxDone(h) => ~dbOk
    /\ IF dbOk
       THEN LET out == RunAllCleanups(now)
            IN  /\ refresh' = out.refresh
                /\ tokens' = out.tokens
                /\ apiKeys' = out.apiKeys
       ELSE UNCHANGED <<refresh, tokens, apiKeys>>
    /\ tasks' = Filed(tasks, "task:system:cleaup_expired", 0, cl[h].attempt, "nil", ~dbOk)
    /\ cl' = [cl EXCEPT ![h] = IdleCleanup]
    /\ UNCHANGED <<files, nFiles, store, nUuid, upl, tj, now, last, users, nTok, att,
                   nRefresh, held, auth, gen, nSecret, app>>

\* the handler of the current attempt of the thumbnail task is inside
\* GenerateThumbnail
InCall(t) ==
    \E h \in HSlots : /\ tj[h].pc # "idle"
                      /\ tj[h].file = t.file
                      /\ tj[h].attempt = t.attempts
                      /\ tj[h].payload = "json"

\* the per-attempt deadline of an active thumbnail task, the 20 seconds of
\* asynq.Timeout(20 * time.Second), passes while its handler is inside
\* GenerateThumbnail: the attempt is filed as failed and the ErrorHandler is
\* called.  The handler goes on, GenerateThumbnail takes no context.  The
\* email tasks of signup and password reset and the cleanup task are
\* enqueued without a Timeout; no deadline of theirs is followed
TimeoutTask(t) ==
    /\ t \in tasks
    /\ t.type = "task:image:generate_thumbnail"
    /\ t.st = "active"
    /\ app.processor = "running"
    /\ InCall(t)
    /\ tasks' = (tasks \ {t}) \cup {FailTask(t)}
    /\ UNCHANGED <<files, nFiles, store, nUuid, upl, tj, cl, now, last, credVars, authVars>>

\* the process is started again after the task server has stopped: the old
\* process has exited, and with it its task handlers and the requests it was
\* serving (uploads, token attempts, key requests); main calls serve, which
\* starts a task server on the same broker and database
Restart ==
    /\ app.processor = "stopped"
    /\ app.starts < MaxStarts
    /\ app' = [Serving EXCEPT !.starts = app.starts + 1]
    /\ tj' = [h \in HSlots |-> IdleTJ]
    /\ cl' = [h \in HSlots |-> IdleCleanup]
    /\ upl' = [p \in Slots |-> IdleUpload]
    /\ att' = [a \in AttSlots |-> IdleAttempt]
    /\ gen' = [g \in GenSlots |-> IdleGen]
    /\ tasks' = {[t EXCEPT !.runs = {}] : t \in tasks}
    /\ UNCHANGED <<files, nFiles, store, nUuid, now, last, users, tokens, nTok, refresh,
                   nRefresh, held, auth, apiKeys, nSecret>>

\* SpecWorker: the task server with an image upload and its thumbnail task,
\* one further task of each type, a file that is published, soft-deleted and
\* expires, a signup whose token expires, handlers whose calls fail, attempts
\* that overrun their deadline, and a server that is shut down by a signal
\* while a task is active and started again.  The handlers of different
\* tasks, and of successive attempts of one task, run side by side.  The
\* clock is followed from the soft delete on, and the scheduler fires the
\* cleanup task when a tombstone has expired.  A failed Save of a thumbnail
\* leaves no object and the Delete of a thumbnail does not fail here;
\* SpecLifecycle and SpecTidy follow those outcomes.
WorkerUpload ==
    \/ nUuid = 0 /\ "u1" \in UserRows /\ UploadSave(1, "u1", "jpg", "ok", TRUE)
    \/ UploadLookup(1, TRUE, TRUE)
    \/ tasks = {} /\ UploadInsert(1, "a", TRUE, TRUE, TRUE)
WorkerPublish == SetFileVisibility("u1", 1, 0, "public") /\ UNCHANGED last
WorkerDelete == DeleteFile("u1", 1, 1) /\ UNCHANGED last
WorkerSignup == Register("u1", "p1", TRUE)
WorkerTick == (\E f \in Rows : files[f].is_deleted) /\ Tick(Retention)
WorkerEnqueue ==
    /\ \A t \in tasks : t.file # 0
    /\ \E type \in TaskTypes, payload \in {"json", "garbage", "nil"} :
          /\ IF type = "task:system:cleaup_expired" THEN Expired # {}
             ELSE \A t \in tasks : t.st \in {"completed", "dead"}
          /\ Enqueue(type, payload)
WorkerSignal == app.starts = 1 /\ (\E t \in tasks : t.st = "active") /\ Signal
WorkerTake == \E t \in tasks : TakeTask(t)
WorkerThumbnail ==
    \/ \E h \in HSlots, how \in {"ok", "decode"} : ThumbnailGet(h, how)
    \/ \E h \in HSlots, how \in {"ok", "save"} : ThumbnailSave(h, how)
    \/ \E h \in HSlots, dbOk \in BOOLEAN : ThumbnailUpdate(h, dbOk, TRUE)
WorkerEmail ==
    \E t \in tasks, work \in {"ok", "failed"} :
        \E a \in t.runs : ProcessTaskSendEmail(t, a, work)
WorkerCleanup ==
    \/ \E h \in HSlots, S \in SUBSET Rows, dbOk \in BOOLEAN : CleanupFetch(h, S, dbOk)
    \/ \E h \in HSlots, K \in SUBSET DOMAIN store : CleanupObjects(h, K)
    \/ \E h \in HSlots, dbOk \in BOOLEAN : CleanupRows(h, dbOk)
    \/ \E h \in HSlots, dbOk \in BOOLEAN : CleanupTokens(h, dbOk)
WorkerTimeout == \E t \in tasks : TimeoutTask(t)

NextWorker ==
    \/ WorkerUpload
    \/ WorkerPublish
    \/ WorkerDelete
    \/ WorkerSignup
    \/ WorkerTick
    \/ WorkerEnqueue
    \/ WorkerTake
    \/ WorkerThumbnail
    \/ WorkerEmail
    \/ WorkerCleanup
    \/ WorkerTimeout
    \/ WorkerSignal
    \/ RunSignalled
    \/ Restart

SpecWorker == Init /\ [][NextWorker]_vars

\* the same task after the step
After(t) == CHOOSE t2 \in tasks' : t2.type = t.type /\ t2.file = t.file

\* the handler of the current attempt of the task t returns in this step
\* after a call of it has failed
HandlerFailed(t) ==
    \/ /\ t.type = "task:image:generate_thumbnail"
       /\ \E h \in HSlots :
             /\ tj[h].file = t.file
             /\ tj[h].attempt = t.attempts
             /\ tj'[h].pc = "idle"
             /\ \/ \E how \in {"ok", "decode"} : ThumbnailGet(h, how)
                \/ \E how \in {"save", "partial"} : ThumbnailSave(h, how)
                \/ \E delOk \in BOOLEAN : ThumbnailUpdate(h, FALSE, delOk)
    \/ ProcessTaskSendEmail(t, t.attempts, "failed")
    \/ /\ t.type = "task:email:send"
       /\ t.payload # "json"
       /\ ProcessTaskSendEmail(t, t.attempts, "ok")
    \/ /\ t.type = "task:system:cleaup_expired"
       /\ \E h \in HSlots, dbOk \in BOOLEAN :
             /\ cl[h].attempt = t.attempts
             /\ CleanupTokens(h, dbOk)
             /\ cl[h].res = "error" \/ ~dbOk

\* C30: when a call of a task's handler has failed, whichever of the three
\* types the task is, the return of the handler to the task server leaves an
\* error line written and the task scheduled for a retry, with one more retry
\* counted, or moved to the dead set.
C30_FailedTaskRetriedOrDead ==
    [][vars' # vars =>
       \A t \in tasks :
          (t.st = "active" /\ HandlerFailed(t))
             => /\ After(t).logged
                /\ \/ After(t).st = "pending" /\ After(t).retried = t.retried + 1
                   \/ After(t).st = "dead"
      ]_vars

\* ------------------------------------------------ claims (SpecWorker), states
\* the steps of a task that the handler's return, or the passing of the
\* deadline, decides
Returned(t) ==
    /\ t.st = "active"
    /\ After(t).attempts = t.attempts
    /\ \/ After(t).st = "completed" /\ After(t).retried = t.retried
       \/ /\ After(t).st = "pending"
          /\ After(t).retried = t.retried + 1
          /\ t.retried < t.max
       \/ /\ After(t).st = "dead"
          /\ After(t).retried = t.retried
          /\ t.retried = t.max \/ t.payload = "garbage"

\* the task as the broker holds it: without its error lines and the
\* handlers that run for it
Core(t) == [t EXCEPT !.logged = FALSE, !.runs = {}]

\* the task has moved: its state or one of its counters has changed
Moved(t) == Core(After(t)) # Core(t)

\* the step that takes a pending task
Taken(t) ==
    /\ t.st = "pending"
    /\ Core(After(t)) = Core([t EXCEPT !.st = "active", !.attempts = t.attempts + 1])

CleanUpExpired(dbOk) ==
    /\ IF dbOk
       THEN LET out == RunAllCleanups(now)
            IN  /\ refresh' = out.refresh
                /\ tokens' = out.tokens
                /\ apiKeys' = out.apiKeys
                /\ last' = [Response("CleanUpExpired", NilUser, 0, "ok")
                              EXCEPT !.rows = out.counts]
       ELSE /\ UNCHANGED <<refresh, tokens, apiKeys>>
            /\ last' = [Response("CleanUpExpired", NilUser, 0, "error")
                          EXCEPT !.rows = <<0, 0, 0>>]
    /\ UNCHANGED <<fileVars, now, users, nTok, att, nRefresh, held, auth, gen, nSecret, app>>

\* SpecSweep: a signup and its activation, password-reset requests, logins and
\* API keys with a near or the default expiry, the cleanup function, and a
\* clock that steps by the lifetime of a refresh token.
SweepIssue ==
    \/ Register("u1", "p1", TRUE)
    \/ SendPasswordResetLink("u1", TRUE)
SweepActivate ==
    \/ ActivateLookup(1, "u1", 1)
    \/ ActivateWrite(1)
    \/ \E dbOk \in BOOLEAN : ActivateDelete(1, dbOk)
SweepLogin == LoginWithRefresh("u1", "p1", TRUE)
SweepMint ==
    \/ \E e \in {NoTime, now + 1} : nSecret < GateMints /\ CreateAPIKey(1, "u1", e)
    \/ GenerateAPIKeyCheck(1, "r1", TRUE)
    \/ GenerateAPIKeyInsert(1, TRUE)
SweepRun == \E dbOk \in BOOLEAN : CleanUpExpired(dbOk)

NextSweep ==
    \/ SweepIssue
    \/ SweepActivate
    \/ SweepLogin
    \/ SweepMint
    \/ SweepRun
    \/ Tick(RefreshTTL)

SpecSweep == Init /\ [][NextSweep]_vars

\* C38: a cleanup that succeeds removes from refresh_tokens, action_tokens
\* and api_keys exactly the rows whose expires_at is earlier than now, and
\* returns the three numbers of removed rows; one that fails removes nothing
\* from any of the three tables.
C38_SweepExact ==
    [][\A dbOk \in BOOLEAN :
          CleanUpExpired(dbOk) =>
             IF last'.res = "ok"
             THEN /\ refresh' = {x \in refresh : x.expires_at >= now}
                  /\ tokens' = {x \in tokens : x.expires_at >= now}
                  /\ apiKeys' = {x \in apiKeys : x.expires_at >= now}
                  /\ last'.rows = <<Cardinality({x \in refresh : x.expires_at < now}),
                                    Cardinality({x \in tokens : x.expires_at < now}),
                                    Cardinality({x \in apiKeys : x.expires_at < now})>>
             ELSE /\ refresh' = refresh /\ tokens' = tokens /\ apiKeys' = apiKeys
                  /\ last'.rows = <<0, 0, 0>>]_vars

\* a cleanup has removed rows of all three tables and has left a refresh
\* token that expires at this very moment and an unexpired action token
C38_Witness ==
    /\ last.op = "CleanUpExpired" /\ last.res = "ok"
    /\ \A n \in 1..3 : last.rows[n] >= 1
    /\ \A x \in refresh \cup tokens \cup apiKeys : x.expires_at >= now
    /\ \E x \in refresh : x.expires_at = now
    /\ \E x \in tokens : x.expires_at > now

\* ------------------------------------------- claims (SpecTidy), the batches
\* a cleanup run selects at most its limit of expired tombstones, deletes no
\* row it has not selected, and leaves the other expired tombstones as they are
RunBounded ==
    [][\A h \in HSlots :
          cl'[h] # cl[h] =>
             /\ cl'[h].pc = "selected"
                   => /\ Cardinality(cl'[h].sel) <= cl'[h].limit
                      /\ cl'[h].limit = CleanupLimit
                      /\ {r.file_id : r \in cl'[h].sel} \subseteq Expired
                      /\ (Cardinality(Expired) > cl'[h].limit
                            => Cardinality(cl'[h].sel) = cl'[h].limit)
             /\ (cl[h].pc = "cleaned" /\ cl'[h].pc # "cleaned")
                   => /\ Cardinality(Rows \ Rows') <= cl[h].limit
                      /\ Rows \ Rows' \subseteq {r.file_id : r \in cl[h].sel}
                      /\ \A f \in Expired \ {r.file_id : r \in cl[h].sel} :
                            f \in Rows' /\ files'[f] = files[f]]_vars

\* C39: a cleanup run hard-deletes at most 100 files and the expired
\* tombstones beyond the limit stay tombstoned; the runs remove every expired
\* tombstone together with its objects: no run selects a row that is gone,
\* so when the row of a tombstone is removed its storage object and its
\* thumbnail object are gone from the store.
C39_ReaperDrains ==
    /\ RunBounded
    /\ [][\A f \in Rows \ Rows' :
             /\ files[f].storage_key \notin DOMAIN store'
             /\ files[f].thumbnail_key # NoKey
                   => files[f].thumbnail_key \notin DOMAIN store']_vars

\* ------------------------------------- claims (SpecUpload), the dedup scope
\* the live rows of owner u that carry the bytes c
LiveCopies(u, c) ==
    {f \in Rows : /\ files[f].user_id = u
                  /\ files[f].checksum = Checksum(c)
                  /\ ~files[f].is_deleted}

\* C40: the dedup lookup of an upload answers DuplicateUpload only when the
\* uploading owner holds a live row with the same checksum, so rows of other
\* owners and tombstoned rows do not stop it; an upload that passed the
\* lookup succeeds unless the insert fails, and then adds a live row of the
\* uploader whose storage key no other row carries.
C40_DedupScoped ==
    [][upl' # upl =>
         \A p \in Slots :
            /\ (upl[p].pc = "saved" /\ upl'[p].pc # "saved")
                  => /\ upl'[p].pc \in {"checked", "done"}
                     /\ upl'[p].pc = "done"
                           => /\ upl'[p].res = "duplicate"
                              /\ LiveCopies(upl[p].user, upl[p].content) # {}
            /\ (upl[p].pc = "checked" /\ upl'[p].pc # "checked")
                  => /\ upl'[p].res \in {"ok", "database error"}
                     /\ upl'[p].res = "ok"
                           => \E f \in Rows' \ Rows :
                                 /\ Rows' = Rows \cup {f}
                                 /\ ~files'[f].is_deleted
                                 /\ files'[f].user_id = upl[p].user
                                 /\ files'[f].checksum = Checksum(upl[p].content)
                                 /\ files'[f].storage_key = upl[p].key
                                 /\ \A g \in Rows : files[g].storage_key # upl[p].key]_vars

\* an owner has uploaded bytes again after soft-deleting the first copy: the
\* tombstone and a live row carry the same checksum under different keys
C40_Witness ==
    /\ \E p \in Slots : upl[p].pc = "done" /\ upl[p].res = "ok"
    /\ \E f \in Rows, g \in Rows :
          /\ files[f].is_deleted /\ ~files[g].is_deleted
          /\ files[f].user_id = files[g].user_id
          /\ files[f].checksum = files[g].checksum
          /\ files[f].storage_key # files[g].storage_key

====
